---- MODULE Spec2Model ----
(***************************************************************************)
(* Provenance registry of minimax-webui (registry/db.py, registry/auth.py, *)
(* registry/chain.py and the registry endpoints of app.py).                *)
(*                                                                         *)
(* The three SQLite tables are sequences in insertion (rowid) order.  A    *)
(* request is a process that walks through the statements of its handler;  *)
(* every `with get_db()` block is one transaction.  With Python's sqlite3  *)
(* (deferred transactions, WAL journal) a SELECT runs outside any write    *)
(* transaction, so a read followed by an INSERT in the same `with` block   *)
(* is two steps that other connections may interleave with.                *)
(*                                                                         *)
(* SHA-256 is modelled as an injective function: a hash is the tuple of    *)
(* what was hashed.  An ECDSA signature is the pair (message, key); address*)
(* recovery yields the key's address only for the signed message.          *)
(***************************************************************************)
EXTENDS Integers, Sequences, FiniteSets, TLC

\* ---------------------------------------------------------------- bounds
NumProcs == 2
NumTexts == 2
NumKeys == 2
NumNames == 1
MaxCompanies == 2
MaxBlocks == 2
MaxTime == 1

Procs == 1..NumProcs
Texts == 1..NumTexts
Keys == 1..NumKeys
Names == 1..NumNames
ReservedIds == {42}
\* a key pair that create_company never generated
OutsiderKey == NumKeys + 1
SignerKeys == Keys \cup {OutsiderKey}

\* ------------------------------------------------------- program constants
GENESIS_PREV_HASH == <<"0">>
ReservedMax == 99
FirstIssuerId == 100
\* a call that returns; HTTPException(403); an exception nobody handles
HTTP_OK == 200
HTTP_FORBIDDEN == 403
HTTP_ERROR == 500
\* the issuer ids of direct SimulatedChain.anchor calls
ChainIssuerIds == {100, 101}

VARIABLES
    companies,   \* table companies, in rowid order
    responses,   \* table responses, in rowid order
    blocks,      \* table chain_blocks, in block_num order
    receipts,    \* the ChainReceipt values anchor has returned so far
    now,         \* the wall clock
    proc,        \* per worker: the call it serves and where it stands
    response,    \* how the call completed last ended (0: none yet)
    tampered     \* whether a stored block was modified behind the program's back

\* the opt-out policy (policy.py)
VARIABLES
    token,       \* the opt-out token at hand
    minted,      \* whether make_opt_out_token produced it
    verdict      \* what verify_opt_out_token did with it last

policyVars == <<token, minted, verdict>>

\* one streaming tag injector (zero_width.TagInjector behind
\* integrations/common.py: TagTextPostProcessor)
VARIABLES
    injector,    \* the TagInjector object
    fed,         \* the source codepoints passed to it so far, in order
    emitted,     \* the concatenation of the strings it returned
    returned,    \* the string its last call returned
    finalized    \* whether some call so far had finalize = true

injectorVars == <<injector, fed, emitted, returned, finalized>>

\* the payload codec (payload.py) applied to one PackedMetadata
VARIABLES
    meta,        \* the PackedMetadata at hand
    packed,      \* what pack_payload did with it
    unpacked     \* what unpack_payload made of the packed word

payloadVars == <<meta, packed, unpacked>>

\* the zero-width codec (zero_width.py) applied to one text
VARIABLES
    shape,       \* how the text is put together, and from which payloads
    tagged,      \* the text: a sequence of codepoints
    got          \* what decode_tags_from_text returned for it

codecVars == <<shape, tagged, got>>

\* one WatermarkDetector.verify call (detector.py)
VARIABLES
    sample,      \* the arguments of the call, and what scoring them gives
    result,      \* the VerifyResult it returned
    tried        \* the step keys it derived for scoring, in order

detectorVars == <<sample, result, tried>>

\* one completion request to the gateway (gateway.py: _handle_common)
VARIABLES
    request,         \* the request received: endpoint and JSON body
    gw,              \* the handler's locals, and the await it stands at
    upstream_calls,  \* the calls made to the upstream so far, with the
                     \* status each was answered with
    reply            \* the gateway's answer to the request

gatewayVars == <<request, gw, upstream_calls, reply>>

\* everything outside the registry
watermarkVars ==
    <<policyVars, injectorVars, payloadVars, codecVars, detectorVars,
      gatewayVars>>

\* everything outside one component
exceptPolicy ==
    <<injectorVars, payloadVars, codecVars, detectorVars, gatewayVars>>
exceptInjector ==
    <<policyVars, payloadVars, codecVars, detectorVars, gatewayVars>>
exceptPayload ==
    <<policyVars, injectorVars, codecVars, detectorVars, gatewayVars>>
exceptCodec ==
    <<policyVars, injectorVars, payloadVars, detectorVars, gatewayVars>>
exceptDetector ==
    <<policyVars, injectorVars, payloadVars, codecVars, gatewayVars>>
exceptGateway ==
    <<policyVars, injectorVars, payloadVars, codecVars, detectorVars>>

registryVars == <<companies, responses, blocks, receipts, now, proc, response, tampered>>

vars == <<registryVars, watermarkVars>>

\* ------------------------------------------------------------ options
\* Optional value: <<>> is None, <<x>> is x.
None == <<>>
Some(x) == <<x>>

\* fetchone() of a SELECT without ORDER BY over a rowid table: the first
\* matching row in rowid order; S is the set of matching row positions.
FetchOne(rows, S) ==
    IF S = {} THEN None
    ELSE Some(rows[CHOOSE i \in S : \A j \in S : i <= j])

\* ----------------------------------------------------------------- auth.py
hash_text(text) == <<"sha256", text>>

Address(key) == <<key, "checksum">>
lower(addr) == <<addr[1], "lower">>
\* the address recovered from a signature over another message: the address
\* of no generated key
ForeignAddress == <<0, "checksum">>

sign_hash(data_hash_hex, private_key) == <<"sig", data_hash_hex, private_key>>
BadSignature == <<"bad">>

\* None when Account.recover_message raises (malformed signature bytes)
recover_signer(data_hash_hex, signature_hex) ==
    IF signature_hex = BadSignature THEN None
    ELSE IF signature_hex[2] = data_hash_hex
         THEN Some(Address(signature_hex[3]))
         ELSE Some(ForeignAddress)

VerifiedSigner(c) ==
    [issuer_id |-> c.issuer_id, name |-> c.name, eth_address |-> c.eth_address]

\* ------------------------------------------------------------------- db.py
get_company_by_issuer(comps, issuer_id) ==
    FetchOne(comps, {i \in 1..Len(comps) :
                        comps[i].issuer_id = issuer_id /\ comps[i].active})

get_company_by_address(comps, eth_address) ==
    FetchOne(comps, {i \in 1..Len(comps) :
                        comps[i].eth_address = eth_address /\ comps[i].active})

list_companies(comps) == comps

get_latest_block(blks) ==
    IF Len(blks) = 0 THEN None ELSE Some(blks[Len(blks)])

get_block_by_data_hash(blks, data_hash) ==
    FetchOne(blks, {i \in 1..Len(blks) : blks[i].data_hash = data_hash})

\* --------------------------------------------------- auth.py: verification
\* verify_signature without the comparison of the recovered address
verify_signature_no_compare(comps, data_hash_hex, signature_hex, issuer_id) ==
    LET recovered == recover_signer(data_hash_hex, signature_hex)
        company == get_company_by_issuer(comps, issuer_id)
    IN  IF recovered = None THEN None
        ELSE IF company = None THEN None
        ELSE Some(VerifiedSigner(company[1]))

verify_signature(comps, data_hash_hex, signature_hex, issuer_id) ==
    LET recovered == recover_signer(data_hash_hex, signature_hex)
        company == get_company_by_issuer(comps, issuer_id)
    IN  IF recovered = None THEN None
        ELSE IF company = None THEN None
        ELSE IF lower(recovered[1]) # lower(company[1].eth_address) THEN None
        ELSE Some(VerifiedSigner(company[1]))

verify_signature_by_address(comps, data_hash_hex, signature_hex) ==
    LET recovered == recover_signer(data_hash_hex, signature_hex)
        company == IF recovered = None THEN None
                   ELSE get_company_by_address(comps, recovered[1])
        all == list_companies(comps)
        fallback == IF recovered = None THEN None
                    ELSE FetchOne(all, {i \in 1..Len(all) :
                            lower(all[i].eth_address) = lower(recovered[1])})
    IN  IF recovered = None THEN None
        ELSE IF company = None
             THEN IF fallback = None THEN None
                  ELSE Some(VerifiedSigner(fallback[1]))
        ELSE Some(VerifiedSigner(company[1]))

\* _next_issuer_id without the floor of 100
_next_issuer_id_no_floor(comps) ==
    LET ids == {comps[i].issuer_id : i \in 1..Len(comps)}
        current_max == IF ids = {} THEN ReservedMax
                       ELSE CHOOSE m \in ids : \A x \in ids : x <= m
    IN  current_max + 1

_next_issuer_id(comps) ==
    LET ids == {comps[i].issuer_id : i \in 1..Len(comps)}
        current_max == IF ids = {} THEN ReservedMax
                       ELSE CHOOSE m \in ids : \A x \in ids : x <= m
    IN  IF current_max + 1 >= FirstIssuerId THEN current_max + 1
        ELSE FirstIssuerId

\* ---------------------------------------------------------------- chain.py
TxHash(prev_hash, data_hash, issuer_id, ts) ==
    <<"sha256", prev_hash, data_hash, issuer_id, ts>>

\* datetime.now(timezone.utc).isoformat() against SQLite's datetime('now'):
\* the same instant in two different text formats
IsoTimestamp(t) == <<"iso", t>>
SqliteTimestamp(t) == <<"sqlite", t>>

lookup(blks, data_hash) == get_block_by_data_hash(blks, data_hash)

verify(blks, data_hash, tx_hash) ==
    LET row == get_block_by_data_hash(blks, data_hash)
    IN  IF row = None THEN FALSE ELSE row[1].tx_hash = tx_hash

chain_length(blks) == Len(blks)

\* the scan of validate_chain from position i on; result <<valid, block_num>>
\* where block_num is the block the message names (0 when valid)
RECURSIVE ValidateFrom(_, _)
ValidateFrom(blks, i) ==
    IF i > Len(blks) THEN <<TRUE, 0>>
    ELSE IF blks[i].prev_hash # blks[i - 1].tx_hash
         THEN <<FALSE, blks[i].block_num>>
         ELSE ValidateFrom(blks, i + 1)

validate_chain(blks) ==
    IF Len(blks) = 0 THEN <<TRUE, 0>>
    ELSE IF blks[1].prev_hash # GENESIS_PREV_HASH
         THEN <<FALSE, blks[1].block_num>>
         ELSE ValidateFrom(blks, 2)

\* ------------------------------------------------------------------ state
Idle == [pc |-> "idle", args |-> <<>>, loc |-> <<>>]

\* the tables init_db creates, and no call in progress
InitRegistry ==
    /\ companies = <<>>
    /\ responses = <<>>
    /\ blocks = <<>>
    /\ receipts = {}
    /\ now = 0
    /\ proc = [p \in Procs |-> Idle]
    /\ response = 0
    /\ tampered = FALSE

\* no token has been made or verified
NoToken == <<"none">>
NoVerdict == <<"none", FALSE, "">>
InitPolicy ==
    /\ token = NoToken
    /\ minted = FALSE
    /\ verdict = NoVerdict

\* TagInjector(tag, repeat_interval_tokens): carry starts at the interval
TagInjector(tag, repeat_interval_tokens) ==
    [tag |-> tag, repeat_interval_tokens |-> repeat_interval_tokens,
     carry |-> repeat_interval_tokens, tag_emitted |-> FALSE]

\* the tag of ZeroWidthTests.test_finalize_inserts
TestTag == <<"<", "t", ">">>

NoCalls ==
    /\ fed = <<>>
    /\ emitted = <<>>
    /\ returned = <<>>
    /\ finalized = FALSE

InitInjector ==
    /\ injector = TagInjector(TestTag, 1)
    /\ NoCalls

\* PackedMetadata(schema_version, issuer_id, model_id, model_version_id, key_id)
PackedMetadata(schema_version, issuer_id, model_id, model_version_id, key_id) ==
    [schema_version |-> schema_version, issuer_id |-> issuer_id,
     model_id |-> model_id, model_version_id |-> model_version_id,
     key_id |-> key_id]

\* a call that has not been made
NotCalled == <<"not called">>

InitPayload ==
    /\ meta = PackedMetadata(1, 123, 4567, 89, 7)
    /\ packed = NotCalled
    /\ unpacked = NotCalled

\* no text yet
InitCodec ==
    /\ shape = <<"none">>
    /\ tagged = NotCalled
    /\ got = NotCalled

\* no verify call yet: an empty text and nothing to score
NoSample ==
    [text |-> <<>>, token_ids |-> <<>>, tokenizer |-> <<>>,
     days_back |-> 0 - 1, zs |-> <<>>]
InitDetector ==
    /\ sample = NoSample
    /\ result = NotCalled
    /\ tried = <<>>

\* the handler's locals before the first statement
Started ==
    [pc |-> "start", body |-> <<>>, tag_ctx |-> <<>>, generated_text |-> <<>>,
     steps |-> 0, piece |-> <<>>, stop_type |-> "none", key_id |-> 0,
     prompt_tokens |-> <<>>, generated_tokens |-> <<>>, date_str |-> 0]
NoReply == <<"none">>
\* a request without a watermark block, not yet handled
NoRequest ==
    [as_chat |-> FALSE,
     body |-> [watermark |-> <<>>, prompt |-> TRUE, max_tokens |-> 0]]
InitGateway ==
    /\ request = NoRequest
    /\ gw = Started
    /\ upstream_calls = <<>>
    /\ reply = NoReply

Init ==
    /\ InitRegistry
    /\ InitPolicy
    /\ InitInjector
    /\ InitPayload
    /\ InitCodec
    /\ InitDetector
    /\ InitGateway

InFlight(pcs) == Cardinality({q \in Procs : proc[q].pc \in pcs})

AllIdle == \A q \in Procs : proc[q].pc = "idle"

IssuerIds(comps) == {comps[i].issuer_id : i \in 1..Len(comps)}
Addresses(comps) == {comps[i].eth_address : i \in 1..Len(comps)}

\* the hashes and signatures a client may submit
DataHashes == {hash_text(t) : t \in Texts}
Signatures ==
    {sign_hash(h, k) : h \in DataHashes, k \in SignerKeys} \cup {BadSignature}

\* ------------------------------------------------- auth.py: create_company
\* key generation, then the SELECT MAX(issuer_id) of _next_issuer_id
create_company_read(p, name, key) ==
    /\ proc[p].pc = "idle"
    /\ Len(companies) + InFlight({"cc_insert"}) < MaxCompanies
    /\ proc' = [proc EXCEPT ![p] =
                    [pc |-> "cc_insert",
                     args |-> [name |-> name, key |-> key],
                     loc |-> [issuer_id |-> _next_issuer_id(companies)]]]
    /\ UNCHANGED <<companies, responses, blocks, receipts, now, response, tampered>>
    /\ UNCHANGED watermarkVars

\* INSERT INTO companies and commit; a UNIQUE violation raises and rolls back
insert_company(comps, name, issuer_id, eth_address) ==
    IF issuer_id \in IssuerIds(comps) \/ eth_address \in Addresses(comps)
    THEN comps
    ELSE Append(comps, [name |-> name, issuer_id |-> issuer_id,
                        eth_address |-> eth_address, active |-> TRUE])

create_company_insert(p) ==
    /\ proc[p].pc = "cc_insert"
    /\ LET after == insert_company(companies, proc[p].args.name,
                         proc[p].loc.issuer_id, Address(proc[p].args.key))
       IN  /\ companies' = after
           /\ response' = IF after = companies THEN HTTP_ERROR ELSE HTTP_OK
    /\ proc' = [proc EXCEPT ![p] = Idle]
    /\ UNCHANGED <<responses, blocks, receipts, now, tampered>>
    /\ UNCHANGED watermarkVars

\* a credential with a reserved issuer id, stored with insert_company directly
seed_company(name, issuer_id, key) ==
    /\ Len(companies) + InFlight({"cc_insert"}) < MaxCompanies
    /\ companies' = insert_company(companies, name, issuer_id, Address(key))
    /\ companies' # companies
    /\ UNCHANGED <<responses, blocks, receipts, now, proc, response, tampered>>
    /\ UNCHANGED watermarkVars

\* UPDATE companies SET active = 0 WHERE issuer_id = ?
deactivate_company(issuer_id) ==
    /\ \E i \in 1..Len(companies) :
          companies[i].issuer_id = issuer_id /\ companies[i].active
    /\ companies' = [i \in 1..Len(companies) |->
                        IF companies[i].issuer_id = issuer_id
                        THEN [companies[i] EXCEPT !.active = FALSE]
                        ELSE companies[i]]
    /\ UNCHANGED <<responses, blocks, receipts, now, proc, response, tampered>>
    /\ UNCHANGED watermarkVars

\* --------------------------------------------------------- app.py: api_anchor
\* api_anchor without the `if signer is None` exit: the request goes on with
\* the issuer_id it named
api_anchor_verify_unchecked(p, text, signature_hex, issuer_id) ==
    /\ proc[p].pc = "idle"
    /\ Len(responses) + InFlight({"aa_store"}) < MaxBlocks
    /\ proc' = [proc EXCEPT ![p] =
                [pc |-> "aa_store",
                 args |-> [text |-> text, signature_hex |-> signature_hex,
                           issuer_id |-> issuer_id],
                 loc |-> [data_hash |-> hash_text(text),
                          signer |-> [issuer_id |-> issuer_id, name |-> 0,
                                      eth_address |-> ForeignAddress]]]]
    /\ UNCHANGED <<companies, responses, blocks, receipts, now, response, tampered>>
    /\ UNCHANGED watermarkVars

\* steps 1 and 2: hash the text, verify the signature, 403 when it fails
api_anchor_verify(p, text, signature_hex, issuer_id) ==
    /\ proc[p].pc = "idle"
    /\ Len(responses) + InFlight({"aa_store"}) < MaxBlocks
    /\ LET data_hash == hash_text(text)
           signer == verify_signature(companies, data_hash, signature_hex, issuer_id)
       IN  IF signer = None
           THEN /\ response' = HTTP_FORBIDDEN
                /\ proc' = proc
           ELSE /\ response' = response
                /\ proc' = [proc EXCEPT ![p] =
                     [pc |-> "aa_store",
                      args |-> [text |-> text, signature_hex |-> signature_hex,
                                issuer_id |-> issuer_id],
                      loc |-> [data_hash |-> data_hash, signer |-> signer[1]]]]
    /\ UNCHANGED <<companies, responses, blocks, receipts, now, tampered>>
    /\ UNCHANGED watermarkVars

\* step 3: insert_response in its own transaction; step 4 then calls
\* _chain.anchor(data_hash, signer.issuer_id, req.signature_hex)
api_anchor_store(p) ==
    /\ proc[p].pc = "aa_store"
    /\ responses' = Append(responses,
                        [sha256_hash |-> proc[p].loc.data_hash,
                         issuer_id |-> proc[p].loc.signer.issuer_id,
                         signature_hex |-> proc[p].args.signature_hex])
    /\ proc' = [proc EXCEPT ![p].pc = "anchor_read",
                            ![p].loc = [data_hash |-> proc[p].loc.data_hash,
                                        issuer_id |-> proc[p].loc.signer.issuer_id,
                                        signature_hex |-> proc[p].args.signature_hex]]
    /\ UNCHANGED <<companies, blocks, receipts, now, response, tampered>>
    /\ UNCHANGED watermarkVars

\* ------------------------------------------------------- app.py: api_verify
\* the literal "unknown" that stands for the name of a missing company
UnknownName == 0
NotFoundReason == "Hash not found on chain. Text may be tampered or never registered."

\* lookup, then get_company_by_issuer in a second transaction; the stored
\* block a lookup finds never changes, so both are read from one state
api_verify(blks, comps, text) ==
    LET data_hash == hash_text(text)
        record == lookup(blks, data_hash)
        company == IF record = None THEN None
                   ELSE get_company_by_issuer(comps, record[1].issuer_id)
    IN  IF record # None
        THEN [verified |-> TRUE,
              sha256_hash |-> data_hash,
              issuer_id |-> record[1].issuer_id,
              company |-> IF company # None THEN company[1].name ELSE UnknownName,
              eth_address |-> IF company # None THEN Some(company[1].eth_address)
                              ELSE None,
              block_num |-> record[1].block_num,
              tx_hash |-> record[1].tx_hash,
              timestamp |-> record[1].timestamp,
              reason |-> ""]
        ELSE [verified |-> FALSE,
              sha256_hash |-> data_hash,
              issuer_id |-> 0,
              company |-> UnknownName,
              eth_address |-> None,
              block_num |-> 0,
              tx_hash |-> None,
              timestamp |-> None,
              reason |-> NotFoundReason]

\* ------------------------------------------------ chain.py: SimulatedChain
\* a direct call of SimulatedChain.anchor; with serial = TRUE calls do not
\* overlap
anchor_call(p, data_hash, issuer_id, signature_hex, serial) ==
    /\ proc[p].pc = "idle"
    /\ serial => AllIdle
    /\ Len(blocks) + InFlight({"anchor_read", "anchor_insert"}) < MaxBlocks
    /\ proc' = [proc EXCEPT ![p] =
                    [pc |-> "anchor_read", args |-> <<>>,
                     loc |-> [data_hash |-> data_hash, issuer_id |-> issuer_id,
                              signature_hex |-> signature_hex]]]
    /\ UNCHANGED <<companies, responses, blocks, receipts, now, response, tampered>>
    /\ UNCHANGED watermarkVars

\* ts, get_latest_block, prev_hash, tx_hash
anchor_read(p) ==
    /\ proc[p].pc = "anchor_read"
    /\ LET ts == IsoTimestamp(now)
           latest == get_latest_block(blocks)
           prev_hash == IF latest # None THEN latest[1].tx_hash
                        ELSE GENESIS_PREV_HASH
           tx_hash == TxHash(prev_hash, proc[p].loc.data_hash,
                             proc[p].loc.issuer_id, ts)
       IN  proc' = [proc EXCEPT ![p].pc = "anchor_insert",
                                ![p].loc = [data_hash |-> proc[p].loc.data_hash,
                                            issuer_id |-> proc[p].loc.issuer_id,
                                            signature_hex |-> proc[p].loc.signature_hex,
                                            ts |-> ts,
                                            prev_hash |-> prev_hash,
                                            tx_hash |-> tx_hash]]
    /\ UNCHANGED <<companies, responses, blocks, receipts, now, response, tampered>>
    /\ UNCHANGED watermarkVars

\* insert_block with the two hash columns bound in the wrong order
insert_block_swapped(blks, prev_hash, tx_hash, data_hash, issuer_id, signature_hex, clock) ==
    IF \E i \in 1..Len(blks) : blks[i].tx_hash = tx_hash
    THEN blks
    ELSE Append(blks, [block_num |-> Len(blks) + 1,
                       prev_hash |-> tx_hash,
                       tx_hash |-> prev_hash,
                       data_hash |-> data_hash,
                       issuer_id |-> issuer_id,
                       signature_hex |-> signature_hex,
                       timestamp |-> SqliteTimestamp(clock)])

\* insert_block as INSERT OR REPLACE keyed on data_hash: a second anchor of
\* the same data replaces the stored block
insert_block_replace(blks, prev_hash, tx_hash, data_hash, issuer_id, signature_hex, clock) ==
    LET new == [block_num |-> Len(blks) + 1,
                prev_hash |-> prev_hash,
                tx_hash |-> tx_hash,
                data_hash |-> data_hash,
                issuer_id |-> issuer_id,
                signature_hex |-> signature_hex,
                timestamp |-> SqliteTimestamp(clock)]
    IN  IF \E i \in 1..Len(blks) : blks[i].tx_hash = tx_hash
        THEN blks
        ELSE IF \E i \in 1..Len(blks) : blks[i].data_hash = data_hash
        THEN [i \in 1..Len(blks) |->
                 IF blks[i].data_hash = data_hash
                 THEN [new EXCEPT !.block_num = i] ELSE blks[i]]
        ELSE Append(blks, new)

\* INSERT INTO chain_blocks: block_num is AUTOINCREMENT, tx_hash is UNIQUE,
\* the timestamp column takes its default; a violation raises and rolls back
insert_block(blks, prev_hash, tx_hash, data_hash, issuer_id, signature_hex, clock) ==
    IF \E i \in 1..Len(blks) : blks[i].tx_hash = tx_hash
    THEN blks
    ELSE Append(blks, [block_num |-> Len(blks) + 1,
                       prev_hash |-> prev_hash,
                       tx_hash |-> tx_hash,
                       data_hash |-> data_hash,
                       issuer_id |-> issuer_id,
                       signature_hex |-> signature_hex,
                       timestamp |-> SqliteTimestamp(clock)])

\* insert_block and commit, then the receipt
anchor_insert(p) ==
    /\ proc[p].pc = "anchor_insert"
    /\ LET l == proc[p].loc
           after == insert_block(blocks, l.prev_hash, l.tx_hash, l.data_hash,
                                 l.issuer_id, l.signature_hex, now)
       IN  /\ blocks' = after
           /\ IF after = blocks
              THEN /\ receipts' = receipts
                   /\ response' = HTTP_ERROR
              ELSE /\ receipts' = receipts \cup
                        {[tx_hash |-> l.tx_hash, block_num |-> Len(after),
                          data_hash |-> l.data_hash,
                          issuer_id |-> l.issuer_id, timestamp |-> l.ts]}
                   /\ response' = HTTP_OK
    /\ proc' = [proc EXCEPT ![p] = Idle]
    /\ UNCHANGED <<companies, responses, now, tampered>>
    /\ UNCHANGED watermarkVars

\* -------------------------------------------------------------- environment
Tick ==
    /\ now < MaxTime
    /\ now' = now + 1
    /\ UNCHANGED <<companies, responses, blocks, receipts, proc, response, tampered>>
    /\ UNCHANGED watermarkVars

\* one UPDATE of a stored block's prev_hash from outside the program, made
\* while no call is being served; nothing is observed after it but the chain
\* it leaves
ForeignHash == <<"sha256", "foreign">>
TamperValues ==
    {GENESIS_PREV_HASH, ForeignHash} \cup {blocks[i].tx_hash : i \in 1..Len(blocks)}

Tamper(i, v) ==
    /\ ~tampered
    /\ AllIdle
    /\ v # blocks[i].prev_hash
    /\ blocks' = [blocks EXCEPT ![i].prev_hash = v]
    /\ tampered' = TRUE
    /\ UNCHANGED <<companies, responses, receipts, now, proc, response>>
    /\ UNCHANGED watermarkVars

\* the ids a request may name: the stored ones and one that is not stored
RequestIssuerIds == IssuerIds(companies) \cup {0}

\* ----------------------------------------------------------- specifications
\* the registry endpoints of app.py, served by concurrent workers
Next ==
    \/ \E p \in Procs, name \in Names, key \in Keys : create_company_read(p, name, key)
    \/ \E p \in Procs : create_company_insert(p)
    \/ \E name \in Names, id \in ReservedIds, key \in Keys : seed_company(name, id, key)
    \/ \E id \in ReservedIds \cup {100, 101, 102} : deactivate_company(id)
    \/ \E p \in Procs, text \in Texts, sig \in Signatures,
          id \in ReservedIds \cup {0, 100, 101, 102} :
          /\ id \in RequestIssuerIds
          /\ api_anchor_verify(p, text, sig, id)
    \/ \E p \in Procs : api_anchor_store(p)
    \/ \E p \in Procs : anchor_read(p)
    \/ \E p \in Procs : anchor_insert(p)
    \/ Tick
Spec == Init /\ [][Next]_vars

\* auth.py and db.py used on their own: credentials are created by concurrent
\* callers, seeded and deactivated
NextAuth ==
    \/ \E p \in Procs, name \in Names, key \in Keys : create_company_read(p, name, key)
    \/ \E p \in Procs : create_company_insert(p)
    \/ \E name \in Names, id \in ReservedIds, key \in Keys : seed_company(name, id, key)
    \/ \E id \in ReservedIds \cup {100, 101, 102} : deactivate_company(id)
SpecAuth == Init /\ [][NextAuth]_vars

\* SimulatedChain used on its own by concurrent callers
ChainStep(serial) ==
    \/ \E p \in Procs, d \in DataHashes, id \in ChainIssuerIds :
          anchor_call(p, d, id, BadSignature, serial)
    \/ \E p \in Procs : anchor_read(p)
    \/ \E p \in Procs : anchor_insert(p)
    \/ Tick

NextChain == ChainStep(FALSE)
SpecChain == Init /\ [][NextChain]_vars

\* SimulatedChain called again only after the previous call has returned
NextChainSerial == ChainStep(TRUE)
SpecChainSerial == Init /\ [][NextChainSerial]_vars

\* concurrent callers, then one modification of the stored chain
NextTamper ==
    \/ ~tampered /\ ChainStep(FALSE)
    \/ \E i \in 1..Len(blocks), v \in TamperValues : Tamper(i, v)
SpecTamper == Init /\ [][NextTamper]_vars

\* =================================================================== claims
\* the linkage invariant of the stored chain, in block_num order
Linked(blks) ==
    \A i \in 1..Len(blks) :
        blks[i].prev_hash = IF i = 1 THEN GENESIS_PREV_HASH ELSE blks[i - 1].tx_hash

\* C1: after any sequence of non-overlapping anchor calls on an initially
\* empty chain the stored blocks satisfy the linkage invariant (first
\* prev_hash is genesis, every later prev_hash is the predecessor's tx_hash)
\* and validate_chain() returns true.
C1_SerialLinkage ==
    /\ Linked(blocks)
    /\ validate_chain(blocks)[1] = TRUE

C1_Witness ==
    /\ AllIdle
    /\ Len(blocks) >= 2
    /\ Cardinality(receipts) = Len(blocks)

\* C2: when anchor calls run concurrently, under every interleaving no two
\* stored blocks have the same prev_hash, and validate_chain() returns true
\* once all calls have completed.
C2_ConcurrentLinkage ==
    /\ \A i, j \in 1..Len(blocks) :
          blocks[i].prev_hash = blocks[j].prev_hash => i = j
    /\ AllIdle => validate_chain(blocks)[1] = TRUE

\* the lowest block_num whose prev_hash is not the expected one (0 if none)
LowestMismatch(blks) ==
    LET bad == {i \in 1..Len(blks) :
                  blks[i].prev_hash #
                    IF i = 1 THEN GENESIS_PREV_HASH ELSE blks[i - 1].tx_hash}
    IN  IF bad = {} THEN 0
        ELSE blks[CHOOSE i \in bad : \A j \in bad : i <= j].block_num

\* C3: starting from any chain built by anchor calls, once the prev_hash of
\* one stored block has been changed to a different value validate_chain()
\* returns false and names the lowest-numbered block whose prev_hash does
\* not match its expected value; on an empty chain it returns true.
C3_TamperDetected ==
    /\ tampered => /\ validate_chain(blocks)[1] = FALSE
                   /\ validate_chain(blocks)[2] = LowestMismatch(blocks)
                   /\ LowestMismatch(blocks) # 0
    /\ blocks = <<>> => validate_chain(blocks)[1] = TRUE

\* the transaction hashes a caller may ask about
TxHashes == {blocks[i].tx_hash : i \in 1..Len(blocks)} \cup {GENESIS_PREV_HASH}

\* C4: for every data_hash d and tx_hash t, in every reachable chain state,
\* verify(d, t) is true if and only if some stored block has data_hash = d
\* and tx_hash = t.
C4_VerifyIffBlock ==
    \A d \in DataHashes, t \in TxHashes :
        verify(blocks, d, t) <=>
            \E i \in 1..Len(blocks) :
                blocks[i].data_hash = d /\ blocks[i].tx_hash = t

\* C5: the chain is append-only. Every step leaves the stored blocks as they
\* are or appends exactly one block numbered one above the previous maximum
\* (1 on an empty chain), and it is exactly then that anchor returns a
\* receipt; so after N successful anchors chain_length() = N, the block
\* numbers are 1..N, and lookup(d) stays non-null for every receipt returned.
C5_Appended ==
    /\ Len(blocks') = Len(blocks) + 1
    /\ \A i \in 1..Len(blocks) : blocks'[i] = blocks[i]
    /\ blocks'[Len(blocks')].block_num = Len(blocks) + 1
    /\ \E r \in receipts' \ receipts :
          /\ receipts' = receipts \cup {r}
          /\ r.block_num = blocks'[Len(blocks')].block_num
          /\ r.data_hash = blocks'[Len(blocks')].data_hash
          /\ r.tx_hash = blocks'[Len(blocks')].tx_hash

C5_Step ==
    /\ \/ blocks' = blocks /\ receipts' = receipts
       \/ C5_Appended
    /\ chain_length(blocks') = Cardinality(receipts')
    /\ {blocks'[i].block_num : i \in 1..Len(blocks')} = 1..Cardinality(receipts')
    /\ \A i \in 1..Len(blocks') : blocks'[i].block_num = i
    /\ \A r \in receipts' : lookup(blocks', r.data_hash) # None

C5_AppendOnly == [][C5_Step]_vars

\* two anchors of the same data, made at the same clock reading, both returned
C5_Witness ==
    /\ AllIdle
    /\ Len(blocks) = 2
    /\ Cardinality(receipts) = 2
    /\ blocks[1].data_hash = blocks[2].data_hash
    /\ blocks[2].timestamp = blocks[1].timestamp
    /\ response = HTTP_OK

\* the key a stored credential belongs to
KeyOf(c) == CHOOSE k \in Keys : Address(k) = c.eth_address

IsActive(issuer_id) ==
    \E i \in 1..Len(companies) :
        companies[i].issuer_id = issuer_id /\ companies[i].active

\* what C6 says of every case but the company's own signature
C6_Rejections ==
    /\ \A i, j \in 1..Len(companies), h \in DataHashes :
          i # j =>
            verify_signature(companies, h, sign_hash(h, KeyOf(companies[j])),
                             companies[i].issuer_id) = None
    /\ \A i \in 1..Len(companies), h, h2 \in DataHashes :
          h # h2 =>
            verify_signature(companies, h2, sign_hash(h, KeyOf(companies[i])),
                             companies[i].issuer_id) = None
    /\ \A k \in SignerKeys, h \in DataHashes :
          Address(k) \notin Addresses(companies) =>
            verify_signature_by_address(companies, h, sign_hash(h, k)) = None

\* C6 as stated: for all registered companies c1 # c2 and hashes h # h',
\* a signature by c2's key is rejected for c1's issuer_id, a signature over h
\* is rejected for h', a signature by a key of no registered company is
\* rejected by verify_signature_by_address, and verify_signature(h,
\* sign_hash(h, key of c), issuer_id of c) returns c's credential.
C6_SignatureAuthority ==
    /\ C6_Rejections
    /\ \A i \in 1..Len(companies), h \in DataHashes :
          verify_signature(companies, h, sign_hash(h, KeyOf(companies[i])),
                           companies[i].issuer_id) = Some(VerifiedSigner(companies[i]))

\* C6 amended: the same rejections, and verify_signature(h, sign_hash(h, key
\* of c), issuer_id of c) returns c's credential exactly when c is active;
\* for a deactivated company it returns None.
C6_SignatureAuthorityActive ==
    /\ C6_Rejections
    /\ \A i \in 1..Len(companies), h \in DataHashes :
          verify_signature(companies, h, sign_hash(h, KeyOf(companies[i])),
                           companies[i].issuer_id) =
            IF companies[i].active THEN Some(VerifiedSigner(companies[i]))
            ELSE None

C6_Witness ==
    /\ Len(companies) = 2
    /\ \E i, j \in 1..2 : companies[i].active /\ ~companies[j].active
    /\ \E k \in SignerKeys : Address(k) \notin Addresses(companies)

\* C7: neither verify_signature nor verify_signature_by_address ever returns
\* a signer for a company whose active flag is false.
C7_InactiveRejected ==
    \A h \in DataHashes, sig \in Signatures :
        /\ \A id \in RequestIssuerIds :
              LET r == verify_signature(companies, h, sig, id)
              IN  r # None => IsActive(r[1].issuer_id)
        /\ LET r == verify_signature_by_address(companies, h, sig)
           IN  r # None => IsActive(r[1].issuer_id)

\* C8: POST /api/registry/anchor writes a response record and a chain block
\* only when verify_signature(hash_text(text), signature_hex, issuer_id)
\* returned a signer; when it returned None the request ends with 403 and
\* the responses and chain_blocks tables are left unchanged.
C8_Step ==
    /\ \A p \in Procs :
          /\ proc[p].pc = "idle" /\ proc'[p] # proc[p] =>
                \/ proc'[p].pc = "cc_insert"
                \/ /\ proc'[p].pc = "aa_store"
                   /\ verify_signature(companies, hash_text(proc'[p].args.text),
                                       proc'[p].args.signature_hex,
                                       proc'[p].args.issuer_id)
                        = Some(proc'[p].loc.signer)
          /\ proc'[p].pc = "anchor_read" => proc[p].pc \in {"aa_store", "anchor_read"}
          /\ proc'[p].pc = "anchor_insert" =>
                proc[p].pc \in {"anchor_read", "anchor_insert"}
    /\ proc' = proc /\ response' # response =>
          /\ response' = HTTP_FORBIDDEN
          /\ responses' = responses
          /\ blocks' = blocks
    /\ responses' # responses =>
          \E p \in Procs :
              /\ proc[p].pc = "aa_store"
              /\ responses' = Append(responses,
                    [sha256_hash |-> hash_text(proc[p].args.text),
                     issuer_id |-> proc[p].args.issuer_id,
                     signature_hex |-> proc[p].args.signature_hex])
    /\ blocks' # blocks =>
          \E p \in Procs :
              /\ proc[p].pc = "anchor_insert"
              /\ blocks'[Len(blocks')].data_hash = hash_text(proc[p].args.text)
              /\ blocks'[Len(blocks')].issuer_id = proc[p].args.issuer_id

C8_WriteOnlyVerified == [][C8_Step]_vars

\* one request was refused with 403 and another has written its block
C8_Witness ==
    /\ response = HTTP_FORBIDDEN
    /\ Len(blocks) >= 1
    /\ Len(responses) >= 1

\* what C9 says of a text whose hash is on the chain, but for the company
C9_Block(r, h) ==
    \E i \in 1..Len(blocks) :
        /\ blocks[i].data_hash = h
        /\ r.issuer_id = blocks[i].issuer_id
        /\ r.block_num = blocks[i].block_num
        /\ r.tx_hash = blocks[i].tx_hash

\* C9: verified = true iff a block with data_hash = hash_text(text)
\* exists; then the result carries that block's issuer_id, block_num and
\* tx_hash with the name and eth_address of the credential whose issuer_id
\* is the block's; otherwise verified = false with 'Hash not found on chain'.
C9_RegistryVerify ==
    \A text \in Texts :
        LET h == hash_text(text)
            r == api_verify(blocks, companies, text)
        IN  /\ r.verified <=> \E i \in 1..Len(blocks) : blocks[i].data_hash = h
            /\ r.verified =>
                  /\ C9_Block(r, h)
                  /\ \E j \in 1..Len(companies) :
                        /\ companies[j].issuer_id = r.issuer_id
                        /\ r.company = companies[j].name
                        /\ r.eth_address = Some(companies[j].eth_address)
            /\ ~r.verified => r.reason = NotFoundReason

MaxOf(S) == CHOOSE m \in S : \A x \in S : x <= m

\* C10: issuer-id allocation. The id create_company allocates, and the id
\* of every credential it stores, is max(99, largest issuer_id stored) + 1:
\* at least 100, above every id stored before, and no two stored
\* credentials ever share an issuer_id.
C10_Step ==
    /\ \A p \in Procs :
          proc[p].pc = "idle" /\ proc'[p].pc = "cc_insert" =>
              proc'[p].loc.issuer_id = MaxOf(IssuerIds(companies) \cup {99}) + 1
    /\ \A p \in Procs :
          /\ proc[p].pc = "cc_insert" /\ proc'[p].pc = "idle"
          /\ Len(companies') = Len(companies) + 1
          =>
              LET c == companies'[Len(companies')]
              IN  /\ c.issuer_id = MaxOf(IssuerIds(companies) \cup {99}) + 1
                  /\ c.issuer_id >= 100
                  /\ \A x \in IssuerIds(companies) : c.issuer_id > x
    /\ \A i, j \in 1..Len(companies') :
          companies'[i].issuer_id = companies'[j].issuer_id => i = j

C10_IssuerIdAllocation == [][C10_Step]_vars

\* a reserved id is stored, two ids were allocated, and one racing call
\* that had read the same maximum failed
C10_Witness ==
    /\ IssuerIds(companies) = {42, 100}
    /\ response = HTTP_ERROR

\* =================================================== policy.py: opt-out tokens
\* Bytes are tagged tuples.  A JSON document is <<kind, exp, iat>> with kind
\* "object", "array" (valid JSON that is no object) or "notjson"; an entry of
\* an object is <<"absent", 0>>, <<"int", n>> or <<"str", 0>> (not a number).
\* HMAC-SHA256 is injective in (secret, message); base64url is a wrapper that
\* only its decoder removes.  A str token is the list of its segments as
\* split(".", 1) yields them.
NumSecrets == 2
MaxTTL == 1

Secrets == 1..NumSecrets
TTLs == (0 - 1)..MaxTTL

Absent == <<"absent", 0>>
JsonInt(n) == <<"int", n>>
JsonStr == <<"str", 0>>

_b64url_encode(data) == <<"b64", data>>
NotBase64 == <<"raw", <<>>>>

hmac_sha256(secret, raw) == <<"hmac", secret, raw>>

\* what a call does: it returns (ok, reason) or raises
Return(ok, reason) == <<"return", ok, reason>>
Raise(exc) == <<"raise", FALSE, exc>>

\* body = dict(payload) with iat and exp set by default, dumped and signed
make_opt_out_token(payload, secret, ttl_seconds, clock) ==
    LET iat == IF payload.iat = Absent THEN JsonInt(clock) ELSE payload.iat
        exp == IF payload.exp = Absent THEN JsonInt(clock + ttl_seconds)
               ELSE payload.exp
        raw == <<"object", exp, iat>>
        sig == hmac_sha256(secret, raw)
    IN  <<"str", <<_b64url_encode(raw), _b64url_encode(sig)>>>>

\* verify_opt_out_token with `exp <= now` for `exp < now`
verify_opt_out_token_early(tok, secret, clock) ==
    IF tok[1] = "none" \/ tok[2] = <<>>
    THEN Return(FALSE, "missing opt_out_token")
    ELSE IF Len(tok[2]) # 2 \/ \E i \in 1..Len(tok[2]) : tok[2][i][1] # "b64"
    THEN Return(FALSE, "malformed token")
    ELSE LET payload == tok[2][1][2]
             sig == tok[2][2][2]
         IN  IF sig # hmac_sha256(secret, payload)
             THEN Return(FALSE, "invalid signature")
             ELSE IF payload[1] = "notjson"
             THEN Return(FALSE, "invalid JSON payload")
             ELSE IF payload[1] # "object" THEN Raise("AttributeError")
             ELSE IF payload[2][1] = "str" THEN Raise("ValueError")
             ELSE IF payload[2][2] <= clock
                  THEN Return(FALSE, "expired token")
                  ELSE Return(TRUE, "ok")

\* not token; split, decode; compare_digest; json.loads; parsed.get("exp", 0)
\* and int() outside any try; exp < now
verify_opt_out_token(tok, secret, clock) ==
    IF tok[1] = "none" \/ tok[2] = <<>>
    THEN Return(FALSE, "missing opt_out_token")
    ELSE IF Len(tok[2]) # 2 \/ \E i \in 1..Len(tok[2]) : tok[2][i][1] # "b64"
    THEN Return(FALSE, "malformed token")
    ELSE LET payload == tok[2][1][2]
             sig == tok[2][2][2]
         IN  IF sig # hmac_sha256(secret, payload)
             THEN Return(FALSE, "invalid signature")
             ELSE IF payload[1] = "notjson"
             THEN Return(FALSE, "invalid JSON payload")
             ELSE IF payload[1] # "object" THEN Raise("AttributeError")
             ELSE IF payload[2][1] = "str" THEN Raise("ValueError")
             ELSE IF payload[2][2] < clock
                  THEN Return(FALSE, "expired token")
                  ELSE Return(TRUE, "ok")

\* the claims a caller may pass: with or without an exp of its own
ClaimsSet ==
    {[exp |-> e, iat |-> Absent] : e \in {Absent, JsonInt(0), JsonStr}}

\* tokens nobody minted: None, "", no dot, undecodable segments, a signature
\* by an unknown secret, and well-signed payloads that are no JSON, no
\* object, or carry no exp
Documents ==
    {<<"notjson", Absent, Absent>>, <<"array", Absent, Absent>>,
     <<"object", Absent, Absent>>, <<"object", JsonStr, Absent>>}
ForgedTokens ==
    {NoToken, <<"str", <<>>>>, <<"str", <<NotBase64>>>>,
     <<"str", <<NotBase64, NotBase64>>>>}
    \cup {<<"str", <<_b64url_encode(d), _b64url_encode(hmac_sha256(k, d))>>>> :
             d \in Documents, k \in {0} \cup Secrets}

make_token(claims, secret, ttl) ==
    /\ token' = make_opt_out_token(claims, secret, ttl, now)
    /\ minted' = TRUE
    /\ verdict' = NoVerdict
    /\ UNCHANGED <<registryVars, exceptPolicy>>

present_token(tok) ==
    /\ token' = tok
    /\ minted' = FALSE
    /\ verdict' = NoVerdict
    /\ UNCHANGED <<registryVars, exceptPolicy>>

verify_token(secret) ==
    /\ verdict' = verify_opt_out_token(token, secret, now)
    /\ UNCHANGED <<token, minted>>
    /\ UNCHANGED <<registryVars, exceptPolicy>>

NextPolicy ==
    \/ \E claims \in ClaimsSet, secret \in Secrets, ttl \in TTLs :
          make_token(claims, secret, ttl)
    \/ \E tok \in ForgedTokens : present_token(tok)
    \/ \E secret \in Secrets : verify_token(secret)
    \/ Tick
SpecPolicy == Init /\ [][NextPolicy]_vars

\* the secret and the exp of a minted token
SecretOf(tok) == tok[2][2][2][2]
ExpOf(tok) == tok[2][1][2][2][2]
HasNumericExp(tok) == tok[2][1][2][2][1] = "int"

\* C11: opt-out freshness.  For every token made by make_opt_out_token under
\* a secret, at every time now: verification under that secret returns
\* ok = true while now <= exp and ok = false once exp < now, and verification
\* under any other secret returns ok = false.
C11_OptOutFreshness ==
    minted =>
        /\ HasNumericExp(token) =>
              verify_opt_out_token(token, SecretOf(token), now) =
                  IF now <= ExpOf(token) THEN Return(TRUE, "ok")
                  ELSE Return(FALSE, "expired token")
        /\ \A secret2 \in Secrets \ {SecretOf(token)} :
              LET r == verify_opt_out_token(token, secret2, now)
              IN  r[1] = "return" /\ r[2] = FALSE

\* a token was accepted at the very second it expires
C11_Witness ==
    /\ minted
    /\ HasNumericExp(token)
    /\ ExpOf(token) = now
    /\ now > 0
    /\ verdict = Return(TRUE, "ok")

\* C13: verify_opt_out_token never raises: whatever the token and the
\* secret, it returns (ok, reason), with a reason on every failure.
C13_NeverRaises ==
    /\ verdict[1] # "raise"
    /\ verdict[1] = "return" /\ ~verdict[2] => verdict[3] # ""

\* ============================================ zero_width.py: TagInjector
\* A string is the sequence of its codepoints.
MaxInterval == 3
MaxSource == 4
MaxPiece == 2

Intervals == 1..MaxInterval
Alphabet == {"a", "b"}
Pieces == UNION {[1..n -> Alphabet] : n \in 0..MaxPiece}

\* step 1 of inject_delta, codepoint by codepoint: decrement carry; at 0 or
\* below append the tag after the codepoint and reset carry
RECURSIVE inject_codepoints(_, _, _, _)
inject_codepoints(tag, repeat_interval_tokens, piece, st) ==
    IF piece = <<>> THEN st
    ELSE LET c == Head(piece)
             carry == st.carry - 1
         IN  inject_codepoints(tag, repeat_interval_tokens, Tail(piece),
                 IF carry <= 0
                 THEN [out |-> (st.out \o <<c>>) \o tag,
                       carry |-> repeat_interval_tokens, emitted |-> TRUE]
                 ELSE [out |-> Append(st.out, c),
                       carry |-> carry, emitted |-> st.emitted])

\* inject_delta(piece, finalize): step 1, then with finalize the final tag
\* if this call emitted none and none was emitted before; the result is the
\* returned string and the object afterwards
inject_delta(inj, piece, finalize) ==
    LET r == inject_codepoints(inj.tag, inj.repeat_interval_tokens, piece,
                 [out |-> <<>>, carry |-> inj.carry, emitted |-> FALSE])
        final == finalize /\ ~r.emitted /\ ~inj.tag_emitted
    IN  [out |-> IF final THEN r.out \o inj.tag ELSE r.out,
         inj |-> [inj EXCEPT !.carry = r.carry,
                             !.tag_emitted = inj.tag_emitted \/ r.emitted \/ final]]

\* TagTextPostProcessor.inject handing a fixed finalize = true to the injector
inject_always_final(text, finalize) ==
    /\ Len(fed) + Len(text) <= MaxSource
    /\ LET r == inject_delta(injector, text, TRUE)
       IN  /\ injector' = r.inj
           /\ returned' = r.out
           /\ emitted' = emitted \o r.out
    /\ fed' = fed \o text
    /\ finalized' = (finalized \/ finalize)
    /\ UNCHANGED <<registryVars, exceptInjector>>

\* TagTextPostProcessor.inject dropping its finalize argument
inject_never_final(text, finalize) ==
    /\ Len(fed) + Len(text) <= MaxSource
    /\ LET r == inject_delta(injector, text, FALSE)
       IN  /\ injector' = r.inj
           /\ returned' = r.out
           /\ emitted' = emitted \o r.out
    /\ fed' = fed \o text
    /\ finalized' = (finalized \/ finalize)
    /\ UNCHANGED <<registryVars, exceptInjector>>

\* TagTextPostProcessor.inject losing the first codepoint of every piece
inject_dropping_first(text, finalize) ==
    /\ Len(fed) + Len(text) <= MaxSource
    /\ LET r == inject_delta(injector,
                             IF text = <<>> THEN text ELSE Tail(text),
                             finalize)
       IN  /\ injector' = r.inj
           /\ returned' = r.out
           /\ emitted' = emitted \o r.out
    /\ fed' = fed \o text
    /\ finalized' = (finalized \/ finalize)
    /\ UNCHANGED <<registryVars, exceptInjector>>

\* TagTextPostProcessor.inject(text, finalize)
inject(text, finalize) ==
    /\ Len(fed) + Len(text) <= MaxSource
    /\ LET r == inject_delta(injector, text, finalize)
       IN  /\ injector' = r.inj
           /\ returned' = r.out
           /\ emitted' = emitted \o r.out
    /\ fed' = fed \o text
    /\ finalized' = (finalized \/ finalize)
    /\ UNCHANGED <<registryVars, exceptInjector>>

InitInjectorAny ==
    /\ InitRegistry
    /\ InitPolicy
    /\ InitPayload
    /\ InitCodec
    /\ InitDetector
    /\ InitGateway
    /\ injector \in {TagInjector(TestTag, I) : I \in Intervals}
    /\ NoCalls

NextInjector == \E text \in Pieces, finalize \in BOOLEAN : inject(text, finalize)
SpecInjector == InitInjectorAny /\ [][NextInjector]_vars

\* the source with the tag after codepoints number I, 2I, 3I, ...
RECURSIVE TaggedEvery(_, _, _, _)
TaggedEvery(source, I, tag, n) ==
    IF n > Len(source) THEN <<>>
    ELSE (IF n % I = 0 THEN <<source[n]>> \o tag ELSE <<source[n]>>)
         \o TaggedEvery(source, I, tag, n + 1)

\* the positions at which tag starts in text
TagStarts(text, tag) ==
    {i \in 1..(Len(text) - Len(tag) + 1) :
        \A k \in 1..Len(tag) : text[i + k - 1] = tag[k]}

\* C16: injector distance.  Until a call with finalize = true, the output
\* of a fresh TagInjector(tag, I), I >= 1, fed L codepoints in any split is
\* the source with one tag right after codepoints number I, 2I, 3I, ... and
\* nowhere else: floor(L / I) insertions, consecutive ones exactly I source
\* codepoints apart, at most one tag after any codepoint.
C16_InjectorDistance ==
    ~finalized =>
        LET I == injector.repeat_interval_tokens
            L == Len(fed)
            starts == TagStarts(emitted, injector.tag)
        IN  /\ emitted = TaggedEvery(fed, I, injector.tag, 1)
            /\ Cardinality(starts) = L \div I
            /\ starts = {k * I + (k - 1) * Len(injector.tag) + 1 : k \in 1..(L \div I)}
            /\ injector.carry = I - (L % I)

\* two insertions, the second after a one-codepoint piece that completed an
\* interval begun in an earlier call
C16_Witness ==
    /\ ~finalized
    /\ injector.repeat_interval_tokens = 2
    /\ Len(fed) = 4
    /\ returned = <<fed[4]>> \o injector.tag
    /\ Cardinality(TagStarts(emitted, injector.tag)) = 2

\* C17: injector finalize.  A call with finalize = true leaves at least one
\* tag in the concatenated output, whatever was fed (nothing, or less than
\* the interval); it appends the final tag at the end of what it returns
\* only when step 1 inserted no tag in that call and no earlier call
\* emitted one.
C17_Step ==
    \A text \in Pieces :
        inject(text, TRUE) =>
            LET r == inject_codepoints(injector.tag, injector.repeat_interval_tokens,
                         text, [out |-> <<>>, carry |-> injector.carry,
                                emitted |-> FALSE])
                appended == returned' # r.out
            IN  /\ TagStarts(emitted', injector.tag) # {}
                /\ appended => returned' = r.out \o injector.tag
                /\ appended <=> (TagStarts(r.out, injector.tag) = {}
                                 /\ TagStarts(emitted, injector.tag) = {})

C17_InjectorFinalize == [][C17_Step]_vars

\* a finalizing call on a short stream appended the only tag
C17_Witness ==
    /\ finalized
    /\ injector.repeat_interval_tokens > Len(fed)
    /\ Len(fed) > 0
    /\ emitted = fed \o injector.tag

\* ======================================================= payload.py: codec
\* A uint64 is the sequence of its 64 bits, most significant first.
SchemaBits == 4
IssuerBits == 16
ModelBits == 16
VersionBits == 12
KeyBits == 8
CrcBits == 8

RECURSIVE Pow2(_)
Pow2(n) == IF n = 0 THEN 1 ELSE 2 * Pow2(n - 1)

ToBits(n, w) == [i \in 1..w |-> (n \div Pow2(w - i)) % 2]

RECURSIVE FromBits(_)
FromBits(bits) ==
    IF bits = <<>> THEN 0
    ELSE 2 * FromBits(SubSeq(bits, 1, Len(bits) - 1)) + bits[Len(bits)]

\* polynomial x^8 + x^2 + x + 1 (0x07), without its leading term
CrcPoly == 7

\* x XOR 0x07 for a byte x
XorPoly(x) == x - (x % 8) + (CrcPoly - (x % 8))

\* one bit of CRC-8: shift left, and XOR the polynomial in when the bit
\* shifted out differs from the data bit
crc8_step(crc, bit) ==
    IF crc \div Pow2(CrcBits - 1) # bit
    THEN XorPoly((crc * 2) % Pow2(CrcBits))
    ELSE (crc * 2) % Pow2(CrcBits)

\* CRC-8-CCITT over the data bits lo..hi in order, most significant first,
\* continuing from crc (the bits are taken in two halves; the CRC of the
\* first half is a byte, and is computed before the second half starts)
RECURSIVE crc8_range(_, _, _, _)
crc8_range(data, lo, hi, crc) ==
    IF lo = hi THEN crc8_step(crc, data[lo])
    ELSE LET left == crc8_range(data, lo, (lo + hi) \div 2, crc)
         IN  IF left \in 0..(Pow2(CrcBits) - 1)
             THEN crc8_range(data, (lo + hi) \div 2 + 1, hi, left)
             ELSE left

\* CRC-8-CCITT, init 0x00
crc8(data) == crc8_range(data, 1, Len(data), 0)

\* the CRC byte of the 56 data bits, as bits
CrcOf(data) == ToBits(crc8(data), CrcBits)

InRange(m) ==
    /\ m.schema_version \in 0..(Pow2(SchemaBits) - 1)
    /\ m.issuer_id \in 0..(Pow2(IssuerBits) - 1)
    /\ m.model_id \in 0..(Pow2(ModelBits) - 1)
    /\ m.model_version_id \in 0..(Pow2(VersionBits) - 1)
    /\ m.key_id \in 0..(Pow2(KeyBits) - 1)

\* the 56 data bits: the fields shifted and ORed, most significant first
DataWord(m) ==
    ToBits(m.schema_version, SchemaBits) \o ToBits(m.issuer_id, IssuerBits)
    \o ToBits(m.model_id, ModelBits) \o ToBits(m.model_version_id, VersionBits)
    \o ToBits(m.key_id, KeyBits)

\* pack_payload with issuer_id and model_id in each other's place
pack_payload_swapped(m) ==
    IF ~InRange(m) THEN Raise("InvalidArgument")
    ELSE LET data == ToBits(m.schema_version, SchemaBits)
                     \o ToBits(m.model_id, ModelBits)
                     \o ToBits(m.issuer_id, IssuerBits)
                     \o ToBits(m.model_version_id, VersionBits)
                     \o ToBits(m.key_id, KeyBits)
         IN  <<"return", data \o CrcOf(data)>>

\* pack_payload: validate, shift and OR, append the CRC as the low 8 bits
pack_payload(m) ==
    IF ~InRange(m) THEN Raise("InvalidArgument")
    ELSE <<"return", DataWord(m) \o CrcOf(DataWord(m))>>

\* unpack_payload: the fields by position, and whether the CRC matches
unpack_payload(word) ==
    LET data == SubSeq(word, 1, 56)
        m == PackedMetadata(FromBits(SubSeq(word, 1, 4)),
                            FromBits(SubSeq(word, 5, 20)),
                            FromBits(SubSeq(word, 21, 36)),
                            FromBits(SubSeq(word, 37, 48)),
                            FromBits(SubSeq(word, 49, 56)))
    IN  <<m, SubSeq(word, 57, 64) = CrcOf(data) /\ InRange(m)>>

\* field values at and around the ends of each range
Metas ==
    {PackedMetadata(sv, iss, mid, ver, kid) :
        sv \in {0, 1, 15, 16}, iss \in {0, 123, 65535, 65536},
        mid \in {0, 4567, 65535}, ver \in {89, 4095, 4096},
        kid \in {0 - 1, 0, 7, 255, 256}}

pack ==
    /\ packed = NotCalled
    /\ packed' = pack_payload(meta)
    /\ UNCHANGED <<meta, unpacked>>
    /\ UNCHANGED <<registryVars, exceptPayload>>

unpack ==
    /\ packed[1] = "return"
    /\ unpacked = NotCalled
    /\ unpacked' = unpack_payload(packed[2])
    /\ UNCHANGED <<meta, packed>>
    /\ UNCHANGED <<registryVars, exceptPayload>>

InitPayloadAny ==
    /\ InitRegistry
    /\ InitPolicy
    /\ InitInjector
    /\ InitCodec
    /\ InitDetector
    /\ InitGateway
    /\ meta \in Metas
    /\ packed = NotCalled
    /\ unpacked = NotCalled

NextPayload == pack \/ unpack
SpecPayload == InitPayloadAny /\ [][NextPayload]_vars

\* C18: payload round-trip.  For every PackedMetadata m with all fields
\* within their bit widths unpack_payload(pack_payload(m)) = (m, true), and
\* pack_payload rejects every m with a field out of range.
C18_PayloadRoundTrip ==
    /\ packed # NotCalled =>
          /\ InRange(meta) => packed[1] = "return" /\ Len(packed[2]) = 64
          /\ ~InRange(meta) => packed[1] = "raise"
    /\ unpacked # NotCalled => unpacked = <<meta, TRUE>>

\* the metadata of PayloadTests.test_roundtrip has gone round
C18_Witness ==
    /\ meta = PackedMetadata(1, 123, 4567, 89, 7)
    /\ unpacked = <<meta, TRUE>>

\* ============================================ zero_width.py: the tag codec
\* TagConfig(): the default characters, as codepoints
TagConfig ==
    [repeat_interval_tokens |-> 160,
     zero_char |-> 8203,     \* U+200B
     one_char |-> 8204,      \* U+200C
     start_char |-> 8291,    \* U+2063
     end_char |-> 8292]      \* U+2064

\* the width of a payload, and the length of a tag around it
PayloadBits ==
    SchemaBits + IssuerBits + ModelBits + VersionBits + KeyBits + CrcBits
TagLen == PayloadBits + 2

\* encode_payload_to_tag with the least significant bit first
encode_payload_lsb_first(p, cfg) ==
    <<cfg.start_char>>
    \o [i \in 1..PayloadBits |->
           IF p[PayloadBits + 1 - i] = 0 THEN cfg.zero_char ELSE cfg.one_char]
    \o <<cfg.end_char>>

\* encode_payload_to_tag: start char, the 64 bits of p from the most
\* significant down as zero/one chars, end char
encode_payload_to_tag(p, cfg) ==
    <<cfg.start_char>>
    \o [i \in 1..PayloadBits |->
           IF p[i] = 0 THEN cfg.zero_char ELSE cfg.one_char]
    \o <<cfg.end_char>>

\* the positions where a start char is followed by exactly 64 zero/one
\* chars and an end char
CandidateStarts(txt, cfg) ==
    {i \in 1..(Len(txt) - (TagLen - 1)) :
        /\ txt[i] = cfg.start_char
        /\ txt[i + TagLen - 1] = cfg.end_char
        /\ \A k \in 1..PayloadBits : txt[i + k] \in {cfg.zero_char, cfg.one_char}}

\* the integer between the brackets of the candidate at position i
CandidateAt(txt, i, cfg) ==
    [k \in 1..PayloadBits |-> IF txt[i + k] = cfg.one_char THEN 1 ELSE 0]

\* decode_tags_from_text: one integer per candidate, by position
decode_tags_from_text(txt, cfg) ==
    LET starts == CandidateStarts(txt, cfg)
    IN  [n \in 1..Cardinality(starts) |->
            CandidateAt(txt,
                        CHOOSE i \in starts :
                            Cardinality({j \in starts : j < i}) = n - 1,
                        cfg)]

\* a 64-bit word from its 16 hexadecimal digits
HexWord(digits) ==
    [i \in 1..PayloadBits |->
        ToBits(digits[((i - 1) \div 4) + 1], 4)[((i - 1) % 4) + 1]]

\* 0x1234567890ABCDEF of ZeroWidthTests.test_encode_decode
TestWord == HexWord(<<1, 2, 3, 4, 5, 6, 7, 8, 9, 0, 10, 11, 12, 13, 14, 15>>)

\* payloads: all zeros, all ones, the test's, and a packed PackedMetadata
Words ==
    {[i \in 1..PayloadBits |-> 0], [i \in 1..PayloadBits |-> 1], TestWord,
     pack_payload(PackedMetadata(1, 123, 4567, 89, 7))[2]}

\* the codepoints of "a" and "b"
LetterA == <<97>>
LetterB == <<98>>

\* texts with well-formed tags
GoodKinds == {"a tag b", "tag", "a tag b tag", "tag tag", "short tag"}
\* texts with no well-formed tag
BadKinds ==
    {"empty", "ab", "short", "long", "foreign", "no end", "no start",
     "end first"}

Shapes == (GoodKinds \cup BadKinds) \X Words \X Words

\* the text of a shape
Compose(sh, cfg) ==
    LET kind == sh[1]
        p == encode_payload_to_tag(sh[2], cfg)
        q == encode_payload_to_tag(sh[3], cfg)
        bits == SubSeq(p, 2, TagLen - 1)
    IN  CASE kind = "a tag b" -> LetterA \o p \o LetterB
          [] kind = "tag" -> p
          [] kind = "a tag b tag" -> LetterA \o p \o LetterB \o q
          [] kind = "tag tag" -> p \o q
          [] kind = "short tag" ->
                <<cfg.start_char>> \o Tail(bits) \o <<cfg.end_char>> \o q
          [] kind = "empty" -> <<>>
          [] kind = "ab" -> LetterA \o LetterB
          [] kind = "short" ->
                LetterA \o <<cfg.start_char>> \o Tail(bits)
                \o <<cfg.end_char>> \o LetterB
          [] kind = "long" ->
                <<cfg.start_char>> \o bits \o <<cfg.zero_char, cfg.end_char>>
          [] kind = "foreign" ->
                <<cfg.start_char>> \o SubSeq(bits, 1, 31) \o LetterA
                \o SubSeq(bits, 33, PayloadBits) \o <<cfg.end_char>>
          [] kind = "no end" -> LetterA \o SubSeq(p, 1, TagLen - 1) \o LetterB
          [] kind = "no start" -> LetterA \o Tail(p) \o LetterB
          [] kind = "end first" ->
                <<cfg.end_char>> \o bits \o <<cfg.start_char>>

\* the text is put together (f"a{tag}b" and the like)
embed ==
    /\ shape # <<"none">>
    /\ tagged = NotCalled
    /\ tagged' = <<"str", Compose(shape, TagConfig)>>
    /\ UNCHANGED <<shape, got>>
    /\ UNCHANGED <<registryVars, exceptCodec>>

\* decode_tags_from_text(text, cfg)
decode ==
    /\ tagged # NotCalled
    /\ got = NotCalled
    /\ got' = <<"return", decode_tags_from_text(tagged[2], TagConfig)>>
    /\ UNCHANGED <<shape, tagged>>
    /\ UNCHANGED <<registryVars, exceptCodec>>

InitCodecAny ==
    /\ InitRegistry
    /\ InitPolicy
    /\ InitInjector
    /\ InitPayload
    /\ InitDetector
    /\ InitGateway
    /\ shape \in Shapes
    /\ tagged = NotCalled
    /\ got = NotCalled

NextCodec == embed \/ decode
SpecCodec == InitCodecAny /\ [][NextCodec]_vars

\* what the text of a shape holds: its well-formed tags' payloads, in order
Embedded(sh) ==
    CASE sh[1] \in {"a tag b", "tag"} -> <<sh[2]>>
      [] sh[1] \in {"a tag b tag", "tag tag"} -> <<sh[2], sh[3]>>
      [] sh[1] = "short tag" -> <<sh[3]>>
      [] sh[1] \in BadKinds -> <<>>

\* C19: tag codec round-trip.  For every 64-bit payload p the tag of p is
\* exactly 66 codepoints (start char, 64 zero/one chars from the most
\* significant bit down, end char), decode_tags_from_text("a" + tag + "b")
\* is [p], candidates come in input order, and malformed runs yield nothing.
C19_TagRoundTrip ==
    /\ tagged # NotCalled /\ shape[1] = "tag" =>
          /\ Len(tagged[2]) = 66
          /\ tagged[2][1] = TagConfig.start_char
          /\ tagged[2][66] = TagConfig.end_char
          /\ \A i \in 1..64 :
                tagged[2][i + 1] = IF shape[2][i] = 1 THEN TagConfig.one_char
                                   ELSE TagConfig.zero_char
    /\ got # NotCalled => got[2] = Embedded(shape)

\* "a" + tag + "b" of 0x1234567890ABCDEF has been decoded to that payload
C19_Witness ==
    /\ shape[1] = "a tag b"
    /\ shape[2] = TestWord
    /\ got = <<"return", <<TestWord>>>>

\* ==================================================================== keys.py
\* _load_master_key_map_from_env: the master keys of the deployment, by id
MasterKeys == [id \in {1, 7} |-> <<"master", id>>]

\* get_master_key: the key of a known id, else the key of the smallest id
get_master_key(key_id) ==
    IF key_id # None /\ key_id[1] \in DOMAIN MasterKeys
    THEN <<key_id[1], MasterKeys[key_id[1]]>>
    ELSE LET first_id == CHOOSE id \in DOMAIN MasterKeys :
                             \A other \in DOMAIN MasterKeys : id <= other
         IN  <<first_id, MasterKeys[first_id]>>

\* derive_step_key: HKDF of the master key with info model_id|date|key_id
derive_step_key(master_key, model_id, date_str, key_id) ==
    <<"hkdf", master_key, <<model_id, date_str, key_id>>>>

\* derive_context_seed: HMAC of the context tokens under the step key
derive_context_seed(derived_key, context_tokens) ==
    <<"hmac", derived_key, context_tokens>>

\* select_sparse_green_ids: the ids a seed selects in the vocabulary
select_sparse_green_ids(seed) == <<"green", seed>>

\* datetime.now(UTC).strftime("%Y%m%d"); one tick of the clock is one day
utc_date(clock) == clock

\* the last width tokens of a context that has at least width tokens
LastTokens(context_tokens, width) ==
    SubSeq(context_tokens, Len(context_tokens) - width + 1,
           Len(context_tokens))

\* ==================================================== detector.py: verify
\* StatisticalConfig(); z-scores, thresholds and the bias are in tenths
StatisticalConfig ==
    [context_width |-> 2, bias_delta |-> 10, z_threshold_verified |-> 40,
     z_threshold_likely |-> 25]

\* WatermarkConfig()
WatermarkConfig ==
    [schema_version |-> 1, issuer_id |-> 1, active_key_id |-> 1,
     statistical |-> StatisticalConfig, tag |-> TagConfig]

MaxDaysBack == 1

\* StatisticalScore, without the fields verify does not read
StatisticalScore(total_scored, z_score) ==
    [total_scored |-> total_scored, z_score |-> z_score]

VerifyResult(status, statistical_score, payload, key_id) ==
    [status |-> status, statistical_score |-> statistical_score,
     payload |-> payload, key_id |-> key_id]

\* verify(..., days_back=7)
DefaultDaysBack == 7

\* the window starting yesterday
_candidate_dates_before_today(days_back) == [i \in 1..(days_back + 1) |-> i]

\* _candidate_dates: today, yesterday, ..., as days ago
_candidate_dates(days_back) == [i \in 1..(days_back + 1) |-> i - 1]

\* StatisticalWatermarkDetector.score and score_sparse_watermark for a list
\* of n token ids: nothing is scored unless n exceeds the context width;
\* z is what counting the green hits under the date's key gives
score(n, z, cfg) ==
    IF n <= cfg.statistical.context_width THEN StatisticalScore(0, 0)
    ELSE StatisticalScore(n - cfg.statistical.context_width, z)

\* the loop of _score_statistical from date i on: a later score replaces
\* best only when its z is strictly greater
RECURSIVE best_score(_, _, _, _, _, _)
best_score(n, dates, zs, i, best, cfg) ==
    IF i > Len(dates) THEN best
    ELSE LET sc == score(n, zs[dates[i]], cfg)
         IN  best_score(n, dates, zs, i + 1,
                        IF best = None \/ sc.z_score > best[1].z_score
                        THEN Some(sc) ELSE best,
                        cfg)

\* _score_statistical for a list of n token ids
_score_statistical(n, days_back, zs, cfg) ==
    IF n = 0 THEN None
    ELSE best_score(n, _candidate_dates(days_back), zs, 1, None, cfg)

\* the status with the statistical score looked at before the payload
status_of_score_first(payload, stat_score, cfg) ==
    IF stat_score # None
    THEN IF stat_score[1].z_score >= cfg.statistical.z_threshold_verified
         THEN "verified"
         ELSE IF stat_score[1].z_score >= cfg.statistical.z_threshold_likely
              THEN "likely" ELSE "none"
    ELSE IF payload # None THEN "verified" ELSE "none"

\* the status of a result
status_of(payload, stat_score, cfg) ==
    IF payload # None THEN "verified"
    ELSE IF stat_score # None
         THEN IF stat_score[1].z_score >= cfg.statistical.z_threshold_verified
              THEN "verified"
              ELSE IF stat_score[1].z_score
                        >= cfg.statistical.z_threshold_likely
                   THEN "likely" ELSE "none"
         ELSE "none"

\* WatermarkDetector.verify.  token_ids is None or Some(n) for a list of n
\* ids; tokenizer is None or Some(what its encode does); zs gives, per
\* date, the z that scoring the ids under that date's key yields.
detector_verify(text, token_ids, tokenizer, days_back, zs, cfg) ==
    LET decoded == decode_tags_from_text(text, cfg.tag)
        valid == {n \in 1..Len(decoded) : unpack_payload(decoded[n])[2]}
        first == CHOOSE n \in valid : \A k \in valid : n <= k
        payload == IF valid = {} THEN None
                   ELSE Some(unpack_payload(decoded[first])[1])
        payload_key_id == IF payload = None THEN None
                          ELSE Some(payload[1].key_id)
        ids == IF token_ids = None /\ tokenizer # None
               THEN IF tokenizer[1][1] = "raise" THEN None
                    ELSE Some(tokenizer[1][2])
               ELSE token_ids
        stat_key_id == IF payload_key_id # None THEN payload_key_id[1]
                       ELSE cfg.active_key_id
        stat_score == IF ids # None /\ ids[1] > 0
                      THEN _score_statistical(ids[1], days_back, zs, cfg)
                      ELSE None
    IN  VerifyResult(status_of(payload, stat_score, cfg), stat_score, payload,
                     stat_key_id)

\* two payloads with a valid CRC and one without
Corrupt(word) == [word EXCEPT ![PayloadBits] = 1 - word[PayloadBits]]
DetectorWords ==
    {pack_payload(PackedMetadata(1, 123, 4567, 89, 7))[2],
     pack_payload(PackedMetadata(1, 1, 0, 0, 9))[2],
     Corrupt(pack_payload(PackedMetadata(1, 123, 4567, 89, 7))[2])}

DetectorTexts ==
    {Compose(<<kind, p, q>>, TagConfig) :
        kind \in {"ab", "a tag b", "tag tag", "foreign"},
        p \in DetectorWords, q \in DetectorWords}

\* z-scores around the two thresholds
Zs == {0 - 10, 24, 25, 39, 40}

Samples ==
    UNION {[text : DetectorTexts,
            token_ids : {None, Some(0), Some(3)},
            tokenizer : {None, Some(Raise("ValueError")), Some(<<"return", 3>>)},
            days_back : {d},
            zs : [0..d -> Zs]] : d \in (0 - 1)..MaxDaysBack}

\* the step keys _score_statistical derives on the day today, in the order
\* of its loop
step_keys(key_id, model_id, days_back, today) ==
    LET master == get_master_key(Some(key_id))
        dates == _candidate_dates(days_back)
    IN  [i \in 1..Len(dates) |->
            derive_step_key(master[2], model_id, today - dates[i], master[1])]

\* the step keys one call of verify derives: none without token ids
verify_step_keys(text, token_ids, tokenizer, days_back, zs, today, cfg) ==
    LET ids == IF token_ids = None /\ tokenizer # None
               THEN IF tokenizer[1][1] = "raise" THEN None
                    ELSE Some(tokenizer[1][2])
               ELSE token_ids
        key_id == detector_verify(text, token_ids, tokenizer, days_back, zs,
                                  cfg).key_id
    IN  IF ids # None /\ ids[1] > 0
        THEN step_keys(key_id, 0, days_back, today)
        ELSE <<>>

verify_call ==
    /\ result = NotCalled
    /\ result' = <<"return",
                    detector_verify(sample.text, sample.token_ids,
                                    sample.tokenizer, sample.days_back,
                                    sample.zs, WatermarkConfig)>>
    /\ tried' = verify_step_keys(sample.text, sample.token_ids,
                                 sample.tokenizer, sample.days_back,
                                 sample.zs, utc_date(now), WatermarkConfig)
    /\ UNCHANGED sample
    /\ UNCHANGED <<registryVars, exceptDetector>>

InitDetectorAny ==
    /\ InitRegistry
    /\ InitPolicy
    /\ InitInjector
    /\ InitPayload
    /\ InitCodec
    /\ InitGateway
    /\ sample \in Samples
    /\ result = NotCalled
    /\ tried = <<>>

NextDetector == verify_call
SpecDetector == InitDetectorAny /\ [][NextDetector]_vars

\* calls made on any day, with the default window among the windows
WindowSamples ==
    UNION {[text : {Compose(<<"ab", TestWord, TestWord>>, TagConfig),
                    Compose(<<"a tag b",
                              pack_payload(PackedMetadata(1, 1, 0, 0, 7))[2],
                              TestWord>>, TagConfig),
                    Compose(<<"a tag b",
                              pack_payload(PackedMetadata(1, 1, 0, 0, 9))[2],
                              TestWord>>, TagConfig)},
            token_ids : {None, Some(2), Some(3)},
            tokenizer : {None},
            days_back : {d},
            zs : [0..d -> {24, 40}]] :
                d \in ((0 - 1)..MaxDaysBack) \cup {DefaultDaysBack}}

InitWindowAny ==
    /\ InitRegistry
    /\ InitPolicy
    /\ InitInjector
    /\ InitPayload
    /\ InitCodec
    /\ InitGateway
    /\ sample \in WindowSamples
    /\ result = NotCalled
    /\ tried = <<>>

NextWindow == verify_call \/ Tick
SpecWindow == InitWindowAny /\ [][NextWindow]_vars

\* the tag candidates of the sample's text that unpack with a valid CRC
ValidCandidates ==
    LET cands == decode_tags_from_text(sample.text, TagConfig)
    IN  {n \in 1..Len(cands) : unpack_payload(cands[n])[2]}

\* how many token ids the call has to score
AvailableIds ==
    IF sample.token_ids # None THEN sample.token_ids[1]
    ELSE IF sample.tokenizer # None /\ sample.tokenizer[1][1] = "return"
         THEN sample.tokenizer[1][2]
         ELSE 0

\* the greatest z over the candidate dates
BestZ ==
    LET z(d) == IF AvailableIds <= 2 THEN 0 ELSE sample.zs[d]
    IN  CHOOSE b \in {z(d) : d \in 0..sample.days_back} :
            \A d \in 0..sample.days_back : z(d) <= b

\* C20: detector classification.  verify returns "verified" whenever some
\* tag candidate unpacks with a valid CRC, whatever the statistical score,
\* and the first such candidate supplies payload and key_id; with no valid
\* payload it returns "verified" iff the best z >= 4.0, "likely" iff
\* 2.5 <= best z < 4.0, and "none" otherwise, also without token ids.
C20_DetectorStatus ==
    result # NotCalled =>
        LET cands == decode_tags_from_text(sample.text, TagConfig)
            valid == {n \in 1..Len(cands) : unpack_payload(cands[n])[2]}
            scored == AvailableIds > 0 /\ sample.days_back >= 0
        IN  IF valid # {}
            THEN LET n == CHOOSE n \in valid : \A k \in valid : n <= k
                     m == unpack_payload(cands[n])[1]
                 IN  /\ result[2].status = "verified"
                     /\ result[2].payload = Some(m)
                     /\ result[2].key_id = m.key_id
            ELSE /\ result[2].payload = None
                 /\ result[2].status \in {"verified", "likely", "none"}
                 /\ result[2].status = "verified" <=> scored /\ BestZ >= 40
                 /\ result[2].status = "likely" <=>
                       scored /\ BestZ >= 25 /\ BestZ < 40
                 /\ ~scored => result[2].status = "none"

\* a text whose second candidate is the first valid one was verified by its
\* payload although the best z is below both thresholds
C20_Witness ==
    /\ result # NotCalled
    /\ ValidCandidates = {2}
    /\ AvailableIds > 2
    /\ sample.days_back = 1
    /\ BestZ < 25
    /\ result[2].status = "verified"
    /\ result[2].key_id = 9

\* ================================================ gateway.py: _handle_common
MaxTokens == 2

HTTP_BAD_REQUEST == 400
HTTP_NOT_IMPLEMENTED == 501
\* get_opt_out_secret(), read once in create_app
opt_out_secret == 1

Modes == {"hybrid", "statistical_only", "tag_only"}

EffectiveWatermarkRequest(enabled, mode, key_id, opt_out_token) ==
    [enabled |-> enabled, mode |-> mode, key_id |-> key_id,
     opt_out_token |-> opt_out_token]

\* parse_effective_request: defaults without a block; an unknown mode is
\* hybrid; enabled is a bool, or a string read as a switch
parse_effective_request(payload) ==
    IF payload = None
    THEN EffectiveWatermarkRequest(TRUE, "hybrid", None, NoToken)
    ELSE EffectiveWatermarkRequest(
             IF payload[1].enabled[1] = "bool" THEN payload[1].enabled[2]
             ELSE payload[1].enabled[2] \in {"1", "true", "yes", "on"},
             IF payload[1].mode \in Modes THEN payload[1].mode ELSE "hybrid",
             payload[1].key_id,
             payload[1].opt_out_token)

\* response.raise_for_status() passes 2xx only
is_success(status) == status \div 100 = 2

\* one upstream call as the client saw it
Call(path, json, status) == [path |-> path, json |-> json, status |-> status]

\* _inject_tag_nonstream from choice i on: one injector for all the choices
RECURSIVE inject_choices(_, _, _)
inject_choices(texts, i, inj) ==
    IF i > Len(texts) THEN <<>>
    ELSE <<inject_delta(inj, texts[i], TRUE).out>>
         \o inject_choices(texts, i + 1, inject_delta(inj, texts[i], TRUE).inj)

\* _inject_tag_nonstream leaving the response as it is
inject_tag_nowhere(texts, tag, repeat_interval) == texts

_inject_tag_nonstream(texts, tag, repeat_interval) ==
    inject_choices(texts, 1, TagInjector(tag, repeat_interval))

\* the opt-out check left out
opt_out_check_skipped(req_wm, clock) == Return(TRUE, "ok")

\* the opt-out check of _handle_common: only a request with enabled = false
\* has its token verified
opt_out_check(req_wm, clock) ==
    IF req_wm.enabled THEN Return(TRUE, "ok")
    ELSE verify_opt_out_token(req_wm.opt_out_token, opt_out_secret, clock)

\* the handler ends: an HTTPException or an unhandled exception (texts
\* empty), or a JSON response with its choices' texts
Done(status, texts) ==
    /\ gw' = [gw EXCEPT !.pc = "done"]
    /\ reply' = <<"reply", status, texts>>

\* the handler goes on to its next await
Goto(pc) ==
    /\ gw' = [gw EXCEPT !.pc = pc]
    /\ reply' = reply

\* _handle_common up to its first upstream call: parse and pop the
\* watermark block, check the opt-out, build the tag, pick the branch
handle_common ==
    /\ gw.pc = "start"
    /\ LET req_wm == parse_effective_request(request.body.watermark)
           body == [request.body EXCEPT !.watermark = None]
           checked == opt_out_check(req_wm, now)
           key_id == IF req_wm.key_id # None THEN req_wm.key_id[1]
                     ELSE WatermarkConfig.active_key_id
           with_tag == req_wm.enabled /\ req_wm.mode \in {"hybrid", "tag_only"}
           payload64 == pack_payload(
                            PackedMetadata(WatermarkConfig.schema_version,
                                           WatermarkConfig.issuer_id, 0, 0,
                                           key_id))
           loop == req_wm.enabled
                   /\ req_wm.mode \in {"hybrid", "statistical_only"}
       IN  IF checked[1] = "raise" THEN Done(HTTP_ERROR, <<>>)
           ELSE IF ~checked[2] THEN Done(HTTP_FORBIDDEN, <<>>)
           ELSE IF with_tag /\ payload64[1] = "raise"
           THEN Done(HTTP_ERROR, <<>>)
           ELSE IF loop /\ ~body.prompt THEN Done(HTTP_BAD_REQUEST, <<>>)
           ELSE /\ gw' = [gw EXCEPT
                            !.pc = IF ~loop THEN "passthrough"
                                   ELSE IF request.as_chat
                                        THEN "apply-template"
                                        ELSE "model-meta",
                            !.body = Some(body),
                            !.key_id = key_id,
                            !.tag_ctx =
                                IF with_tag
                                THEN Some(encode_payload_to_tag(
                                              payload64[2],
                                              WatermarkConfig.tag))
                                ELSE None]
                /\ reply' = reply
    /\ UNCHANGED <<request, upstream_calls>>
    /\ UNCHANGED <<registryVars, exceptGateway>>

\* the answers of the upstream: a success, a redirect, two failures
Statuses == {200, 302, 404, 503}

ApplyTemplateResponses ==
    {[status |-> st, error |-> FALSE, prompt |-> TRUE] : st \in Statuses}
    \cup {[status |-> 200, error |-> TRUE, prompt |-> FALSE],
          [status |-> 200, error |-> FALSE, prompt |-> FALSE]}

\* _llama_apply_template
llama_apply_template(resp) ==
    /\ gw.pc = "apply-template"
    /\ upstream_calls' =
           Append(upstream_calls, Call("/apply-template", None, resp.status))
    /\ IF ~is_success(resp.status) THEN Done(HTTP_ERROR, <<>>)
       ELSE IF resp.error THEN Done(HTTP_NOT_IMPLEMENTED, <<>>)
       ELSE IF ~resp.prompt THEN Done(HTTP_ERROR, <<>>)
       ELSE Goto("model-meta")
    /\ UNCHANGED request
    /\ UNCHANGED <<registryVars, exceptGateway>>

\* _llama_model_meta at the head of _watermarked_generate
llama_model_meta(status) ==
    /\ gw.pc = "model-meta"
    /\ upstream_calls' = Append(upstream_calls, Call("/v1/models", None, status))
    /\ IF ~is_success(status) THEN Done(HTTP_ERROR, <<>>)
       ELSE Goto("tokenize")
    /\ UNCHANGED request
    /\ UNCHANGED <<registryVars, exceptGateway>>

\* the loop is over: the response is built, and tagged if there is a tag
Finish(generated) ==
    /\ gw' = [gw EXCEPT !.pc = "done", !.generated_text = generated]
    /\ reply' =
           <<"reply", HTTP_OK,
             IF gw.tag_ctx = None THEN <<generated>>
             ELSE _inject_tag_nonstream(
                      <<generated>>, gw.tag_ctx[1],
                      WatermarkConfig.tag.repeat_interval_tokens)>>

\* one /tokenize call as the client saw it, with the ids it was answered
TokenizeCall(resp) ==
    [path |-> "/tokenize", json |-> None, status |-> resp.status,
     tokens |-> resp.tokens]

\* what /tokenize may answer: a failure, or up to two ids
TokenizeResponses ==
    {[status |-> st, tokens |-> <<>>] : st \in Statuses \ {200}}
    \cup {[status |-> 200, tokens |-> t] : t \in {<<>>, <<1>>, <<1, 2>>}}

\* _llama_tokenize of the prompt, the date of the generation, and the
\* loop's first test
llama_tokenize(resp) ==
    /\ gw.pc = "tokenize"
    /\ upstream_calls' = Append(upstream_calls, TokenizeCall(resp))
    /\ IF ~is_success(resp.status) THEN Done(HTTP_ERROR, <<>>)
       ELSE IF gw.body[1].max_tokens = 0 THEN Finish(<<>>)
       ELSE /\ gw' = [gw EXCEPT !.pc = "completion",
                                !.prompt_tokens = resp.tokens,
                                !.date_str = utc_date(now)]
            /\ reply' = reply
    /\ UNCHANGED request
    /\ UNCHANGED <<registryVars, exceptGateway>>

\* the bias seeded from every token of the context
build_bias_from_whole_context(context_tokens, cfg, model_id_num, key_id, date_str) ==
    Some([ids |-> select_sparse_green_ids(
                      derive_context_seed(
                          derive_step_key(get_master_key(Some(key_id))[2],
                                          model_id_num, date_str, key_id),
                          context_tokens)),
          delta |-> cfg.statistical.bias_delta])

\* _build_sparse_wm_logit_bias: the empty map, or the map of the green ids
\* to bias_delta
_build_sparse_wm_logit_bias(context_tokens, cfg, model_id_num, key_id, date_str) ==
    IF Len(context_tokens) < cfg.statistical.context_width THEN None
    ELSE Some([ids |-> select_sparse_green_ids(
                           derive_context_seed(
                               derive_step_key(
                                   get_master_key(Some(key_id))[2],
                                   model_id_num, date_str, key_id),
                               LastTokens(context_tokens,
                                          cfg.statistical.context_width))),
               delta |-> cfg.statistical.bias_delta])

\* the prompt of a generation request, as a string of codepoints
PromptText == <<112>>

\* _to_llama_completion_req: the body of one /completion call
\* (the requests checked carry no logit_bias of their own, so the merged
\* bias is the watermark's)
_to_llama_completion_req(prompt, n_predict, logit_bias) ==
    [prompt |-> prompt, n_predict |-> n_predict, stream |-> FALSE,
     cache_prompt |-> TRUE, return_tokens |-> TRUE,
     logit_bias |-> logit_bias]

\* one /completion call as the client saw it, with what it was answered
CompletionCall(json, resp) ==
    [path |-> "/completion", json |-> Some(json), status |-> resp.status,
     content |-> resp.content, tokens |-> resp.tokens,
     stop_type |-> resp.stop_type]

\* the end of an iteration whose stop_type is never looked at
Advance_past_stop(content, step_ids, stop_type) ==
    IF gw.steps + 1 = gw.body[1].max_tokens
    THEN Finish(gw.generated_text \o content)
    ELSE /\ gw' = [gw EXCEPT !.pc = "completion", !.steps = gw.steps + 1,
                             !.generated_text = gw.generated_text \o content,
                             !.generated_tokens =
                                 gw.generated_tokens \o step_ids]
         /\ reply' = reply

\* the end of one iteration: the piece and its ids are appended; the loop
\* ends on a stop or after max_tokens iterations
Advance(content, step_ids, stop_type) ==
    IF stop_type \in {"eos", "word"} \/ gw.steps + 1 = gw.body[1].max_tokens
    THEN Finish(gw.generated_text \o content)
    ELSE /\ gw' = [gw EXCEPT !.pc = "completion", !.steps = gw.steps + 1,
                             !.generated_text = gw.generated_text \o content,
                             !.generated_tokens =
                                 gw.generated_tokens \o step_ids]
         /\ reply' = reply

CompletionResponses ==
    {[status |-> st, error |-> FALSE, content |-> <<>>, tokens |-> <<>>,
      stop_type |-> "none"] : st \in Statuses \ {200}}
    \cup {[status |-> 200, error |-> TRUE, content |-> <<>>, tokens |-> <<>>,
           stop_type |-> "none"]}
    \cup {[status |-> 200, error |-> FALSE, content |-> c, tokens |-> t,
           stop_type |-> st] :
             c \in {<<>>, LetterA, LetterB}, t \in {<<>>, <<3>>},
             st \in {"none", "eos", "word"}}

\* one iteration of the loop of _watermarked_generate up to its next await
completion(resp) ==
    /\ gw.pc = "completion"
    /\ upstream_calls' =
           Append(upstream_calls,
                  CompletionCall(
                      _to_llama_completion_req(
                          PromptText \o gw.generated_text, 1,
                          _build_sparse_wm_logit_bias(
                              gw.prompt_tokens \o gw.generated_tokens,
                              WatermarkConfig, 0, gw.key_id, gw.date_str)),
                      resp))
    /\ IF ~is_success(resp.status) THEN Done(HTTP_ERROR, <<>>)
       ELSE IF resp.error THEN Done(HTTP_NOT_IMPLEMENTED, <<>>)
       ELSE IF resp.tokens = <<>> /\ resp.content # <<>>
       THEN /\ gw' = [gw EXCEPT !.pc = "step-tokenize",
                                !.piece = resp.content,
                                !.stop_type = resp.stop_type]
            /\ reply' = reply
       ELSE Advance(resp.content, resp.tokens, resp.stop_type)
    /\ UNCHANGED request
    /\ UNCHANGED <<registryVars, exceptGateway>>

\* the iteration's _llama_tokenize of the piece, and the rest of it
step_tokenize(resp) ==
    /\ gw.pc = "step-tokenize"
    /\ upstream_calls' = Append(upstream_calls, TokenizeCall(resp))
    /\ IF ~is_success(resp.status) THEN Done(HTTP_ERROR, <<>>)
       ELSE Advance(gw.piece, resp.tokens, gw.stop_type)
    /\ UNCHANGED request
    /\ UNCHANGED <<registryVars, exceptGateway>>

\* what a passthrough call may be answered: texts of zero, one or two
\* choices, or a body that is no JSON
PassthroughResponses ==
    {[status |-> 200, json |-> TRUE, texts |-> t] :
        t \in {<<>>, <<LetterA \o LetterB>>, <<LetterA \o LetterB, LetterA>>}}
    \cup {[status |-> 302, json |-> j, texts |-> IF j THEN <<LetterA>> ELSE <<>>] :
             j \in BOOLEAN}
    \cup {[status |-> st, json |-> FALSE, texts |-> <<>>] : st \in {404, 503}}

\* the passthrough branch of _handle_common
passthrough(resp) ==
    /\ gw.pc = "passthrough"
    /\ upstream_calls' =
           Append(upstream_calls,
                  Call(IF request.as_chat THEN "/v1/chat/completions"
                       ELSE "/v1/completions",
                       gw.body, resp.status))
    /\ IF resp.status >= 400 THEN Done(resp.status, <<>>)
       ELSE IF ~resp.json THEN Done(HTTP_ERROR, <<>>)
       ELSE IF gw.tag_ctx = None THEN Done(HTTP_OK, resp.texts)
       ELSE Done(HTTP_OK,
                 _inject_tag_nonstream(
                     resp.texts, gw.tag_ctx[1],
                     WatermarkConfig.tag.repeat_interval_tokens))
    /\ UNCHANGED request
    /\ UNCHANGED <<registryVars, exceptGateway>>

\* opt-out tokens: none, malformed, signed with another secret, expired,
\* valid, and well signed with an exp that is no number
NoClaims == [exp |-> Absent, iat |-> Absent]
GatewayTokens ==
    {NoToken, <<"str", <<NotBase64>>>>,
     make_opt_out_token(NoClaims, opt_out_secret + 1, 1, 0),
     make_opt_out_token(NoClaims, opt_out_secret, 0 - 1, 0),
     make_opt_out_token(NoClaims, opt_out_secret, 1, 0),
     make_opt_out_token([exp |-> JsonStr, iat |-> Absent], opt_out_secret, 1, 0)}

WatermarkBlocks ==
    {[enabled |-> <<"bool", TRUE>>, mode |-> m, key_id |-> k,
      opt_out_token |-> NoToken] :
        m \in Modes \cup {"bogus"},
        k \in {None, Some(7), Some(9), Some(256)}}
    \cup {[enabled |-> e, mode |-> m, key_id |-> None, opt_out_token |-> t] :
             e \in {<<"bool", FALSE>>, <<"str", "no">>},
             m \in {"hybrid", "tag_only"}, t \in GatewayTokens}

Requests ==
    {[as_chat |-> c,
      body |-> [watermark |-> w, prompt |-> p, max_tokens |-> n]] :
        c \in BOOLEAN,
        w \in {None} \cup {Some(b) : b \in WatermarkBlocks},
        p \in BOOLEAN, n \in 0..MaxTokens}

InitGatewayAny ==
    /\ InitRegistry
    /\ InitPolicy
    /\ InitInjector
    /\ InitPayload
    /\ InitCodec
    /\ InitDetector
    /\ request \in Requests
    /\ gw = Started
    /\ upstream_calls = <<>>
    /\ reply = NoReply

NextGateway ==
    \/ handle_common
    \/ \E resp \in ApplyTemplateResponses : llama_apply_template(resp)
    \/ \E status \in Statuses : llama_model_meta(status)
    \/ \E resp \in TokenizeResponses : llama_tokenize(resp)
    \/ \E resp \in CompletionResponses : completion(resp)
    \/ \E resp \in TokenizeResponses : step_tokenize(resp)
    \/ \E resp \in PassthroughResponses : passthrough(resp)
SpecGateway == InitGatewayAny /\ [][NextGateway]_vars

\* the request as _handle_common reads it
ParsedRequest == parse_effective_request(request.body.watermark)
Handled == gw.pc = "done"
Succeeded == reply # NoReply /\ reply[2] = HTTP_OK
CallPaths == {upstream_calls[i].path : i \in DOMAIN upstream_calls}

\* C12: opt-out gate.  A request with watermark.enabled = false reaches the
\* upstream only if verify_opt_out_token accepts its opt_out_token under the
\* configured secret; with a missing, malformed, wrongly signed or expired
\* token the gateway answers 403 and makes no upstream call at all.
C12_OptOutGate ==
    ~ParsedRequest.enabled =>
        LET v == verify_opt_out_token(ParsedRequest.opt_out_token,
                                      opt_out_secret, now)
        IN  /\ upstream_calls # <<>> => v = Return(TRUE, "ok")
            /\ Handled /\ v[1] = "return"
               /\ v[3] \in {"missing opt_out_token", "malformed token",
                            "invalid signature", "expired token"} =>
                  /\ reply = <<"reply", HTTP_FORBIDDEN, <<>>>>
                  /\ upstream_calls = <<>>

\* a request with enabled = false and an expired token was refused with 403
\* before any upstream call
C12_Witness ==
    /\ ~ParsedRequest.enabled
    /\ verify_opt_out_token(ParsedRequest.opt_out_token, opt_out_secret, now)
           = Return(FALSE, "expired token")
    /\ reply = <<"reply", HTTP_FORBIDDEN, <<>>>>
    /\ upstream_calls = <<>>

PassthroughPaths == {"/v1/completions", "/v1/chat/completions"}
LoopPaths == {"/apply-template", "/v1/models", "/tokenize", "/completion"}
HasTag(txt) == decode_tags_from_text(txt, TagConfig) # <<>>

\* mode dispatch, with forwarded for the body a tag_only request is
\* forwarded with
ModeDispatch(forwarded) ==
    /\ ParsedRequest.enabled /\ ParsedRequest.mode = "tag_only" =>
          /\ CallPaths \subseteq PassthroughPaths
          /\ Len(upstream_calls) <= 1
          /\ Succeeded => Len(upstream_calls) = 1
          /\ \A i \in DOMAIN upstream_calls :
                upstream_calls[i].json = Some(forwarded)
    /\ ParsedRequest.enabled
       /\ ParsedRequest.mode \in {"hybrid", "statistical_only"} =>
          /\ CallPaths \subseteq LoopPaths
          /\ Succeeded => {"/v1/models", "/tokenize"} \subseteq CallPaths
    /\ Succeeded /\ reply[3] # <<>> =>
          ((\E i \in DOMAIN reply[3] : HasTag(reply[3][i]))
              <=> /\ ParsedRequest.enabled
                  /\ ParsedRequest.mode \in {"hybrid", "tag_only"})

\* C14 as stated: mode tag_only makes exactly one upstream completion call
\* with the request forwarded unchanged and runs no per-token loop;
\* statistical_only and hybrid run the per-token loop; the returned text
\* carries a tag if and only if the mode is hybrid or tag_only, so not for
\* statistical_only and not under a valid opt-out.
C14_ModeDispatch == ModeDispatch(request.body)

\* C14, amended: as stated, except that the body forwarded to the upstream
\* is the request's body without its watermark block.
C14_ModeDispatchStripped ==
    ModeDispatch([request.body EXCEPT !.watermark = None])

\* a tag_only request was answered from one passthrough call that carried
\* no watermark block, and its text came back tagged
C14_Witness ==
    /\ ParsedRequest.enabled
    /\ ParsedRequest.mode = "tag_only"
    /\ request.body.watermark # None
    /\ Succeeded
    /\ Len(upstream_calls) = 1
    /\ upstream_calls[1].json[1].watermark = None
    /\ reply[3] # <<>>
    /\ HasTag(reply[3][1])

\* C15: any non-2xx answer of the upstream during a generation request (the
\* passthrough call, tokenize, apply-template, model-meta, or a step of the
\* per-token loop) makes the request fail with the upstream's status code;
\* the failed call is not retried and no partial text is returned.
C15_UpstreamStatus ==
    \A i \in DOMAIN upstream_calls :
        ~is_success(upstream_calls[i].status) =>
            /\ i = Len(upstream_calls)
            /\ reply = <<"reply", upstream_calls[i].status, <<>>>>

\* ---------------------------------------------- the per-token loop, as seen
\* the upstream answers a call the handler is waiting on
AwaitReturns ==
    \/ \E resp \in ApplyTemplateResponses : llama_apply_template(resp)
    \/ \E status \in Statuses : llama_model_meta(status)
    \/ \E resp \in TokenizeResponses : llama_tokenize(resp)
    \/ \E resp \in CompletionResponses : completion(resp)
    \/ \E resp \in TokenizeResponses : step_tokenize(resp)
    \/ \E resp \in PassthroughResponses : passthrough(resp)

\* every await of the handler returns or raises (the client has timeouts),
\* so a handler that waits on the upstream goes on
SpecGatewayFair == SpecGateway /\ WF_vars(AwaitReturns)

\* the handler is in _watermarked_generate
InLoop == gw.pc \in {"model-meta", "tokenize", "completion", "step-tokenize"}

\* the positions of the /completion calls among the upstream calls
CompletionSteps ==
    {i \in DOMAIN upstream_calls : upstream_calls[i].path = "/completion"}

\* the pieces returned by the /completion calls before call i, in order
RECURSIVE PiecesBefore(_)
PiecesBefore(i) ==
    IF i <= 1 THEN <<>>
    ELSE LET earlier == PiecesBefore(i - 1)
         IN  IF upstream_calls[i - 1].path = "/completion"
             THEN earlier \o upstream_calls[i - 1].content
             ELSE earlier

\* the step of call i was answered with a stop
StoppedAt(i) ==
    /\ is_success(upstream_calls[i].status)
    /\ upstream_calls[i].stop_type \in {"eos", "word"}

LoopProtocol ==
    /\ CompletionSteps # {} =>
          /\ ParsedRequest.enabled
          /\ ParsedRequest.mode \in {"hybrid", "statistical_only"}
    /\ Cardinality(CompletionSteps) <= request.body.max_tokens
    /\ \A i \in CompletionSteps :
          /\ upstream_calls[i].json[1].n_predict = 1
          /\ upstream_calls[i].json[1].prompt = PromptText \o PiecesBefore(i)
          /\ StoppedAt(i) =>
                /\ \A j \in CompletionSteps : j <= i
                /\ \A j \in DOMAIN upstream_calls :
                      j > i => /\ j = i + 1
                               /\ upstream_calls[j].path = "/tokenize"
                               /\ upstream_calls[i].content # <<>>
                /\ gw.pc \in {"step-tokenize", "done"}

NextGatewayClock == NextGateway \/ Tick
SpecGatewayClock == InitGatewayAny /\ [][NextGatewayClock]_vars

\* the ids the upstream returned before call i: those of the prompt, then
\* those of the steps (from the step's answer or from its /tokenize)
RECURSIVE TokensBefore(_)
TokensBefore(i) ==
    IF i <= 1 THEN <<>>
    ELSE LET earlier == TokensBefore(i - 1)
         IN  IF upstream_calls[i - 1].path \in {"/tokenize", "/completion"}
             THEN earlier \o upstream_calls[i - 1].tokens
             ELSE earlier

C23_StoredTimestampHashed ==
    /\ \A i \in 1..Len(blocks) :
          blocks[i].tx_hash = TxHash(blocks[i].prev_hash, blocks[i].data_hash,
                                     blocks[i].issuer_id, blocks[i].timestamp)
    /\ \A r \in receipts :
          LET row == lookup(blocks, r.data_hash)
          IN  row # None /\ row[1].tx_hash = r.tx_hash =>
                 row[1].timestamp = r.timestamp

\* ------------------------------------------- create_company under a race
C24_Step ==
    /\ \A i, j \in 1..Len(companies') :
          (\/ companies'[i].issuer_id = companies'[j].issuer_id
           \/ companies'[i].eth_address = companies'[j].eth_address) => i = j
    /\ \A p \in Procs :
          proc[p].pc = "cc_insert" /\ proc'[p].pc = "idle"
          /\ proc[p].loc.issuer_id \in IssuerIds(companies) =>
             /\ companies' = companies
             /\ response' = 409

\* C24: under concurrent create_company calls the unique constraints hold in
\* every reachable state (no two credentials share an issuer_id or an
\* eth_address); a call that loses the race on issuer_id fails with a
\* Conflict error (409) rather than an unhandled error, and persists nothing.
C24_ConflictSurfaced == [][C24_Step]_vars

\* ---------------------------------------------- the claims of a made token
C25_Step ==
    \A claims \in ClaimsSet, secret \in Secrets, ttl \in TTLs :
        make_token(claims, secret, ttl) =>
            /\ token'[2][1][2] =
                   <<"object", JsonInt(now + ttl), JsonInt(now)>>
            /\ \A clock \in (now + ttl + 1)..(MaxTime + MaxTTL + 1) :
                  verify_opt_out_token(token', secret, clock)
                      # Return(TRUE, "ok")

\* C25: for every claims mapping (including one that already contains an
\* iat or exp entry), every secret and every ttl, the token returned by
\* make_opt_out_token carries iat = now and exp = now + ttl, so no issued
\* token is accepted by verify_opt_out_token more than ttl seconds after it
\* was made.
C25_IssuedExpiry == [][C25_Step]_vars

\* --------------------------------------------- the source in the output
\* text with every occurrence of tag deleted
WithoutTags(text, tag) ==
    LET covered == {i + k - 1 : i \in TagStarts(text, tag), k \in 1..Len(tag)}
        kept == (1..Len(text)) \ covered
    IN  [n \in 1..Cardinality(kept) |->
            text[CHOOSE i \in kept :
                    Cardinality({j \in kept : j < i}) = n - 1]]

\* C26: the injector never modifies any non-zero-width character.  For
\* every sequence of inject_delta calls, deleting all inserted tag
\* occurrences from the concatenated outputs yields exactly the
\* concatenation of the input pieces, in the same order.
C26_SourcePreserved ==
    /\ WithoutTags(emitted, injector.tag) = fed
    /\ SelectSeq(emitted, LAMBDA c : c \in Alphabet) = fed

\* four codepoints fed in several pieces came out with two tags between
\* them, and the source is still there in its order
C26_Witness ==
    /\ fed = <<"a", "b", "b", "a">>
    /\ Len(returned) < Len(emitted)
    /\ Cardinality(TagStarts(emitted, injector.tag)) = 2
    /\ emitted # fed

\* ------------------------------------------------ the detection window
\* the dates a claim about the window is checked for
WindowDates == (0 - DefaultDaysBack - 1)..(MaxTime + 1)

C27_Step ==
    verify_call /\ sample.token_ids # None =>
        LET today == utc_date(now)
            days_back == sample.days_back
            master == get_master_key(Some(result'[2].key_id))
            key_of(D) == derive_step_key(master[2], 0, D, master[1])
            keys == {tried'[i] : i \in DOMAIN tried'}
            z_of(k) == IF sample.token_ids[1] <= 2 THEN 0 ELSE sample.zs[k]
        IN  /\ Len(tried') = days_back + 1
            /\ Cardinality(keys) = days_back + 1
            /\ keys = {key_of(today - k) : k \in 0..days_back}
            /\ days_back >= 0 =>
                  /\ result'[2].statistical_score # None
                  /\ \A k \in 0..days_back :
                        z_of(k) <= result'[2].statistical_score[1].z_score
                  /\ \E k \in 0..days_back :
                        z_of(k) = result'[2].statistical_score[1].z_score
            /\ \A D \in WindowDates :
                  key_of(D) \in keys <=> (D <= today /\ today <= D + days_back)

\* C27: detection window.  verify scores the token ids against the step
\* keys of exactly the days_back + 1 UTC dates today, today - 1, ...,
\* today - days_back (7 days back by default) and reports the score with
\* the greatest z among them; so a text generated with the step key of
\* date D is scored against that key if and only if verification runs on a
\* date from D to D + days_back inclusive.
C27_DetectionWindow == [][C27_Step]_vars

\* a call with the default window, made a day after the clock started,
\* tried eight keys, yesterday's among them, and reported the greatest z,
\* which was not today's
C27_Witness ==
    /\ sample.days_back = DefaultDaysBack
    /\ now = 1
    /\ Len(tried) = DefaultDaysBack + 1
    /\ tried[2] = derive_step_key(MasterKeys[7], 0, 0, 7)
    /\ sample.zs[0] = 24
    /\ result # NotCalled
    /\ result[2].statistical_score # None
    /\ result[2].statistical_score[1].z_score = 40

\* ------------------------------------------- the key of both sides
\* KeyedSparseGreenlist.__init__: the step key of the object
KeyedSparseGreenlist(cfg, model_id, key_id, date_str) ==
    LET selected == get_master_key(
                        IF key_id # None THEN key_id
                        ELSE Some(cfg.active_key_id))
    IN  derive_step_key(selected[2], model_id, date_str, selected[1])

\* the step key WatermarkDetector._score_statistical derives for a date
DetectorStepKey(model_id, key_id, date_str) ==
    LET master == get_master_key(Some(key_id))
    IN  derive_step_key(master[2], model_id, date_str, master[1])

\* C28: generator/detector key agreement.  For every requested key_id,
\* including one that is absent from the master key set, the step key the
\* gateway computes the bias with equals the step key the detector derives
\* for the same model id, the same date and the key_id carried in the tag
\* payload of that same response, and equals the key KeyedSparseGreenlist
\* derives for those inputs.
C28_KeyAgreement ==
    Succeeded /\ reply[3] # <<>> /\ HasTag(reply[3][1]) =>
        LET decoded == decode_tags_from_text(reply[3][1], TagConfig)
            payload == unpack_payload(decoded[1])[1]
        IN  \A i \in CompletionSteps :
               LET bias == upstream_calls[i].json[1].logit_bias
               IN  bias # None =>
                      /\ bias[1].ids[2][2] =
                            DetectorStepKey(0, payload.key_id, gw.date_str)
                      /\ bias[1].ids[2][2] =
                            KeyedSparseGreenlist(WatermarkConfig, 0,
                                                 Some(payload.key_id),
                                                 gw.date_str)

\* ------------------------------------------------ the two writes of anchor
\* C29: anchor atomicity.  After any sequence of POST /api/registry/anchor
\* requests, including requests in which the chain insert fails after the
\* response insert has committed, a response record with sha256_hash = h
\* exists if and only if a chain block with data_hash = h exists: the
\* response record and the chain block of one request take effect together
\* or not at all, so every hash has as many response records as blocks.
C29_AnchorAtomic ==
    AllIdle =>
        \A h \in DataHashes :
            Cardinality({i \in 1..Len(responses) :
                            responses[i].sha256_hash = h})
                = Cardinality({i \in 1..Len(blocks) : blocks[i].data_hash = h})

\* --------------------------------------------- several fields, one injector
\* the codepoints a tag is made of
ZeroWidth ==
    {TagConfig.zero_char, TagConfig.one_char, TagConfig.start_char,
     TagConfig.end_char}

\* C30: when one upstream response carries several text fields (several
\* choices, or a choice with both text and message.content),
\* _inject_tag_nonstream leaves every one of those fields containing at
\* least one complete tag, and the tag positions inside each field depend
\* only on that field's own text, not on the fields processed before it
\* with the same injector.
C30_EveryFieldTagged ==
    Succeeded /\ gw.tag_ctx # None =>
        \A i \in DOMAIN reply[3] :
            LET own == SelectSeq(reply[3][i], LAMBDA c : c \notin ZeroWidth)
                fresh == TagInjector(gw.tag_ctx[1],
                                     WatermarkConfig.tag.repeat_interval_tokens)
            IN  /\ HasTag(reply[3][i])
                /\ reply[3][i] = inject_delta(fresh, own, TRUE).out

====
